---- MODULE Spec2Model ----
(***************************************************************************)
(* rodumani: the multitrack timeline engine (TimelineManager) and the      *)
(* directive queue of an editing session (EditingSession behind            *)
(* MCPVideoEditingServer).                                                 *)
(*                                                                         *)
(* A TimelineManager is a record tm = [tracks, totalDuration, undoStack,   *)
(* redoStack, nextId].  Every method is an operator from the manager (and  *)
(* the call's arguments) to [tm |-> the manager afterwards, ret |-> the    *)
(* returned value].  tracks is the Map<string, Track> as the sequence of   *)
(* its values in insertion order.  Identifiers produced by generateId()    *)
(* are fresh; nextId is the next one.  The id and timestamp of an          *)
(* EditOperation are never read and are left out of the log entries.       *)
(* ops counts the mutations recorded since the initial state; it only      *)
(* bounds the runs.                                                        *)
(* submitted[s] counts the directives submitted to session s so far.       *)
(* keyframes is the Map of a KeyframeManager, from item identifiers to     *)
(* keyframe arrays; numbers are exact rationals, a value is a record with  *)
(* num and den (a number) or with text (a string).                         *)
(* inflight holds the agent.execute_next calls suspended at their await.   *)
(* simple is the state of the express server of src/unnamed/part_000 and   *)
(* simpleResp its last response body.                                      *)
(***************************************************************************)
EXTENDS Integers, Sequences, FiniteSets, TLC

VARIABLES tm, hist, last, ops, server, resp, submitted, keyframes, inflight, simple,
          simpleResp

vars == <<tm, hist, last, ops, server, resp, submitted, keyframes, inflight, simple,
         simpleResp>>

\* the variables of the server, which a bare TimelineManager leaves alone,
\* those of the bare TimelineManager, which the server leaves alone, and those
\* that neither touches
serverVars == <<server, resp, submitted>>

otherVars == <<keyframes, inflight, simple, simpleResp>>

timelineVars == <<tm, hist, ops>>

\* ---------------------------------------------------------------- bounds
MaxIds == 3
MaxFrame == 2
MaxDur == 2
MaxOps == 2
MaxSessions == 1
MaxDirectives == 3
MaxPriority == 2
MaxBatch == 2
MaxQueued == 1
MaxChainIds == 4
MaxKeyframes == 2
MaxIsolated == 2
MaxLoad == 3
MaxInFlight == 2

\* undoStack.length > 100 evicts the oldest entry
UndoLimit == 100

\* an argument that is `undefined`, and an identifier naming nothing
Undefined == -1
NoId == 0

Frames == 0..MaxFrame
Durations == 1..MaxDur

\* ------------------------------------------------------- sequence helpers
Max2(a, b) == IF a >= b THEN a ELSE b

\* Array.prototype.findIndex: the first index satisfying the test, 0 for -1
FindItemIndex(items, itemId) ==
  LET hits == {i \in 1..Len(items) : items[i].id = itemId}
  IN IF hits = {} THEN 0 ELSE CHOOSE i \in hits : \A j \in hits : i <= j

FindTrackIndex(tracks, trackId) ==
  LET hits == {i \in 1..Len(tracks) : tracks[i].id = trackId}
  IN IF hits = {} THEN 0 ELSE CHOOSE i \in hits : \A j \in hits : i <= j

\* Array.prototype.splice(index, 1)
RemoveAt(s, k) == [i \in 1..(Len(s) - 1) |-> IF i < k THEN s[i] ELSE s[i + 1]]

\* ------------------------------------------------------------ the manager
NewTimelineManager ==
  [tracks |-> <<>>, totalDuration |-> 0, undoStack |-> <<>>, redoStack |-> <<>>,
   nextId |-> 1]

ItemEnd(item) == item.startFrame + item.durationInFrames

\* updateTotalDuration: the largest item end over all tracks, 0 without items
ComputeTotalDuration(tracks) ==
  LET ends == UNION {{ItemEnd(tracks[t].items[i]) : i \in 1..Len(tracks[t].items)} :
                       t \in 1..Len(tracks)}
  IN IF ends = {} THEN 0 ELSE CHOOSE e \in ends : \A o \in ends : o <= e

updateTotalDuration(m) == [m EXCEPT !.totalDuration = ComputeTotalDuration(m.tracks)]

\* recordOperation that leaves the redo stack as it is
recordOperation_KeepRedo(m, operation) ==
  LET pushed == Append(m.undoStack, operation)
  IN [m EXCEPT !.undoStack = IF Len(pushed) > UndoLimit THEN Tail(pushed) ELSE pushed]

\* recordOperation that never evicts
recordOperation_NoEvict(m, operation) ==
  [m EXCEPT !.undoStack = Append(m.undoStack, operation), !.redoStack = <<>>]

\* recordOperation: push, clear the redo stack, evict the oldest above the limit
recordOperation(m, operation) ==
  LET pushed == Append(m.undoStack, operation)
  IN [m EXCEPT !.undoStack = IF Len(pushed) > UndoLimit THEN Tail(pushed) ELSE pushed,
               !.redoStack = <<>>]

\* the intersection test of resolveOverlaps
Intersects(newItem, item) ==
  ~(ItemEnd(newItem) <= item.startFrame \/ newItem.startFrame >= ItemEnd(item))

\* resolveOverlaps, one existing item, trimmed to the new item's start without
\* the lower limit of one frame
resolveOne_NoFloor(newItem, item) ==
  IF item.id = newItem.id THEN item
  ELSE IF Intersects(newItem, item)
       THEN IF newItem.startFrame < item.startFrame
            THEN [item EXCEPT !.startFrame = ItemEnd(newItem)]
            ELSE [item EXCEPT !.durationInFrames = newItem.startFrame - item.startFrame]
       ELSE item

\* resolveOverlaps, one existing item, pushed behind the new item even when the
\* new item starts inside it
resolveOne_AlwaysPush(newItem, item) ==
  IF item.id = newItem.id THEN item
  ELSE IF Intersects(newItem, item)
       THEN [item EXCEPT !.startFrame = ItemEnd(newItem)]
       ELSE item

\* resolveOverlaps, one existing item: pushed behind the new item, or trimmed
resolveOne(newItem, item) ==
  IF item.id = newItem.id THEN item
  ELSE IF Intersects(newItem, item)
       THEN IF newItem.startFrame < item.startFrame
            THEN [item EXCEPT !.startFrame = ItemEnd(newItem)]
            ELSE [item EXCEPT !.durationInFrames =
                                 Max2(1, newItem.startFrame - item.startFrame)]
       ELSE item

\* resolveOverlaps with a second pass that resolves the items against the first
\* item the new item has pushed
resolveOverlaps_Rechecked(items, newItem) ==
  LET first == [i \in 1..Len(items) |-> resolveOne(newItem, items[i])]
      pushed == {i \in 1..Len(items) : first[i].startFrame # items[i].startFrame}
  IN IF pushed = {} THEN first
     ELSE LET b == CHOOSE i \in pushed : \A j \in pushed : i <= j
          IN [i \in 1..Len(first) |-> resolveOne(first[b], first[i])]

\* resolveOverlaps: a single forEach pass over the track's items
resolveOverlaps(items, newItem) ==
  [i \in 1..Len(items) |-> resolveOne(newItem, items[i])]

createTrack(m, name, type) ==
  LET track == [id |-> m.nextId, name |-> name, type |-> type, items |-> <<>>,
                isLocked |-> FALSE]
  IN [tm |-> [m EXCEPT !.tracks = Append(m.tracks, track), !.nextId = m.nextId + 1],
      ret |-> track.id]

\* deleteTrack: Map.delete, nothing else
deleteTrack(m, trackId) ==
  LET k == FindTrackIndex(m.tracks, trackId)
  IN IF k = 0 THEN [tm |-> m, ret |-> FALSE]
     ELSE [tm |-> [m EXCEPT !.tracks = RemoveAt(m.tracks, k)], ret |-> TRUE]

addItemToTrack(m, trackId, item0, insertFrame) ==
  LET k == FindTrackIndex(m.tracks, trackId)
  IN IF k = 0 \/ m.tracks[k].isLocked THEN [tm |-> m, ret |-> FALSE]
     ELSE
       LET item == IF insertFrame # Undefined
                   THEN [item0 EXCEPT !.startFrame = insertFrame] ELSE item0
           items == Append(resolveOverlaps(m.tracks[k].items, item), item)
           m1 == updateTotalDuration([m EXCEPT !.tracks[k].items = items])
           op == [type |-> "move", trackId |-> trackId, itemId |-> item.id,
                  parameters |-> [action |-> "add", item |-> item]]
       IN [tm |-> recordOperation(m1, op), ret |-> TRUE]

\* removeItemFromTrack that records no operation
removeItemFromTrack_NoRecord(m, trackId, itemId) ==
  LET k == FindTrackIndex(m.tracks, trackId)
      itemIndex == IF k = 0 THEN 0 ELSE FindItemIndex(m.tracks[k].items, itemId)
  IN IF k = 0 \/ itemIndex = 0 \/ m.tracks[k].isLocked THEN [tm |-> m, ret |-> FALSE]
     ELSE [tm |-> updateTotalDuration(
                    [m EXCEPT !.tracks[k].items = RemoveAt(@, itemIndex)]),
           ret |-> TRUE]

removeItemFromTrack(m, trackId, itemId) ==
  LET k == FindTrackIndex(m.tracks, trackId)
  IN IF k = 0 \/ m.tracks[k].isLocked THEN [tm |-> m, ret |-> FALSE]
     ELSE
       LET itemIndex == FindItemIndex(m.tracks[k].items, itemId)
       IN IF itemIndex = 0 THEN [tm |-> m, ret |-> FALSE]
          ELSE
            LET removedItem == m.tracks[k].items[itemIndex]
                m1 == updateTotalDuration(
                        [m EXCEPT !.tracks[k].items = RemoveAt(@, itemIndex)])
                op == [type |-> "delete", trackId |-> trackId, itemId |-> itemId,
                       parameters |-> [action |-> "remove", item |-> removedItem]]
            IN [tm |-> recordOperation(m1, op), ret |-> TRUE]

\* moveItem without the lock test on the destination track
moveItem_NoTargetLock(m, trackId, itemId, newStartFrame, newTrackId) ==
  LET k == FindTrackIndex(m.tracks, trackId)
      d == FindTrackIndex(m.tracks, newTrackId)
      itemIndex == IF k = 0 THEN 0 ELSE FindItemIndex(m.tracks[k].items, itemId)
  IN IF k = 0 \/ d = 0 \/ d = k \/ itemIndex = 0 \/ m.tracks[k].isLocked
     THEN [tm |-> m, ret |-> FALSE]
     ELSE
       LET item == [m.tracks[k].items[itemIndex] EXCEPT !.startFrame = newStartFrame]
           target == Append(resolveOverlaps(m.tracks[d].items, item), item)
       IN [tm |-> updateTotalDuration(
                    [m EXCEPT !.tracks[k].items = RemoveAt(@, itemIndex),
                              !.tracks[d].items = target]),
           ret |-> TRUE]

\* moveItem that leaves the item in its source track when it moves it to
\* another track
moveItem_KeepSource(m, trackId, itemId, newStartFrame, newTrackId) ==
  LET k == FindTrackIndex(m.tracks, trackId)
  IN IF k = 0 \/ m.tracks[k].isLocked THEN [tm |-> m, ret |-> FALSE]
     ELSE
       LET itemIndex == FindItemIndex(m.tracks[k].items, itemId)
       IN IF itemIndex = 0 THEN [tm |-> m, ret |-> FALSE]
          ELSE
            LET old == m.tracks[k].items[itemIndex]
                item == [old EXCEPT !.startFrame = newStartFrame]
                op == [type |-> "move", trackId |-> trackId, itemId |-> itemId,
                       parameters |->
                         [oldStartFrame |-> old.startFrame,
                          newStartFrame |-> newStartFrame,
                          oldTrackId |-> trackId,
                          newTrackId |-> IF newTrackId = Undefined
                                         THEN trackId ELSE newTrackId]]
            IN IF newTrackId = Undefined \/ newTrackId = trackId
               THEN
                 LET items == resolveOverlaps(
                                [m.tracks[k].items EXCEPT ![itemIndex] = item], item)
                     m1 == updateTotalDuration([m EXCEPT !.tracks[k].items = items])
                 IN [tm |-> recordOperation(m1, op), ret |-> TRUE]
               ELSE
                 LET d == FindTrackIndex(m.tracks, newTrackId)
                 IN IF d = 0 \/ m.tracks[d].isLocked THEN [tm |-> m, ret |-> FALSE]
                    ELSE
                      LET target == Append(resolveOverlaps(m.tracks[d].items, item), item)
                          m1 == updateTotalDuration(
                                  [m EXCEPT !.tracks[d].items = target])
                      IN [tm |-> recordOperation(m1, op), ret |-> TRUE]

\* moveItem that takes the item out of its track before it looks at the
\* destination of a cross-track move
moveItem_RemoveFirst(m, trackId, itemId, newStartFrame, newTrackId) ==
  LET k == FindTrackIndex(m.tracks, trackId)
      d == FindTrackIndex(m.tracks, newTrackId)
      itemIndex == IF k = 0 THEN 0 ELSE FindItemIndex(m.tracks[k].items, itemId)
  IN IF k = 0 \/ itemIndex = 0 \/ m.tracks[k].isLocked THEN [tm |-> m, ret |-> FALSE]
     ELSE
       LET old == m.tracks[k].items[itemIndex]
           item == [old EXCEPT !.startFrame = newStartFrame]
           op == [type |-> "move", trackId |-> trackId, itemId |-> itemId,
                  parameters |->
                    [oldStartFrame |-> old.startFrame, newStartFrame |-> newStartFrame,
                     oldTrackId |-> trackId,
                     newTrackId |-> IF newTrackId = Undefined THEN trackId
                                    ELSE newTrackId]]
           removed == [m EXCEPT !.tracks[k].items = RemoveAt(@, itemIndex)]
       IN IF newTrackId = Undefined \/ newTrackId = trackId
          THEN [tm |-> recordOperation(
                         updateTotalDuration(
                           [m EXCEPT !.tracks[k].items =
                                        resolveOverlaps(
                                          [m.tracks[k].items EXCEPT ![itemIndex] = item],
                                          item)]), op),
                ret |-> TRUE]
          ELSE IF d = 0 \/ m.tracks[d].isLocked THEN [tm |-> removed, ret |-> FALSE]
          ELSE [tm |-> recordOperation(
                         updateTotalDuration(
                           [removed EXCEPT !.tracks[d].items =
                              Append(resolveOverlaps(m.tracks[d].items, item), item)]),
                         op),
                ret |-> TRUE]

moveItem(m, trackId, itemId, newStartFrame, newTrackId) ==
  LET k == FindTrackIndex(m.tracks, trackId)
  IN IF k = 0 \/ m.tracks[k].isLocked THEN [tm |-> m, ret |-> FALSE]
     ELSE
       LET itemIndex == FindItemIndex(m.tracks[k].items, itemId)
       IN IF itemIndex = 0 THEN [tm |-> m, ret |-> FALSE]
          ELSE
            LET old == m.tracks[k].items[itemIndex]
                item == [old EXCEPT !.startFrame = newStartFrame]
                op == [type |-> "move", trackId |-> trackId, itemId |-> itemId,
                       parameters |->
                         [oldStartFrame |-> old.startFrame,
                          newStartFrame |-> newStartFrame,
                          oldTrackId |-> trackId,
                          newTrackId |-> IF newTrackId = Undefined
                                         THEN trackId ELSE newTrackId]]
            IN IF newTrackId = Undefined \/ newTrackId = trackId
               THEN
                 LET items == resolveOverlaps(
                                [m.tracks[k].items EXCEPT ![itemIndex] = item], item)
                     m1 == updateTotalDuration([m EXCEPT !.tracks[k].items = items])
                 IN [tm |-> recordOperation(m1, op), ret |-> TRUE]
               ELSE
                 LET d == FindTrackIndex(m.tracks, newTrackId)
                 IN IF d = 0 \/ m.tracks[d].isLocked THEN [tm |-> m, ret |-> FALSE]
                    ELSE
                      LET target == Append(resolveOverlaps(m.tracks[d].items, item), item)
                          m1 == updateTotalDuration(
                                  [m EXCEPT !.tracks[k].items = RemoveAt(@, itemIndex),
                                            !.tracks[d].items = target])
                      IN [tm |-> recordOperation(m1, op), ret |-> TRUE]

\* trimItem without the lower limit of one frame on the duration
trimItem_NoClamp(m, trackId, itemId, trimStart, trimEnd) ==
  LET k == FindTrackIndex(m.tracks, trackId)
      itemIndex == IF k = 0 THEN 0 ELSE FindItemIndex(m.tracks[k].items, itemId)
  IN IF k = 0 \/ itemIndex = 0 \/ m.tracks[k].isLocked THEN [tm |-> m, ret |-> FALSE]
     ELSE
       LET old == m.tracks[k].items[itemIndex]
           s1 == IF trimStart # Undefined
                 THEN [old EXCEPT !.startFrame = trimStart,
                                  !.durationInFrames =
                                     old.durationInFrames - (trimStart - old.startFrame)]
                 ELSE old
           s2 == IF trimEnd # Undefined
                 THEN [s1 EXCEPT !.durationInFrames = trimEnd - s1.startFrame]
                 ELSE s1
       IN [tm |-> updateTotalDuration([m EXCEPT !.tracks[k].items[itemIndex] = s2]),
           ret |-> TRUE]

trimItem(m, trackId, itemId, trimStart, trimEnd) ==
  LET k == FindTrackIndex(m.tracks, trackId)
  IN IF k = 0 \/ m.tracks[k].isLocked THEN [tm |-> m, ret |-> FALSE]
     ELSE
       LET itemIndex == FindItemIndex(m.tracks[k].items, itemId)
       IN IF itemIndex = 0 THEN [tm |-> m, ret |-> FALSE]
          ELSE
            LET old == m.tracks[k].items[itemIndex]
                s1 == IF trimStart # Undefined
                      THEN [old EXCEPT !.startFrame = trimStart,
                                       !.durationInFrames =
                                          Max2(1, old.durationInFrames
                                                    - (trimStart - old.startFrame))]
                      ELSE old
                s2 == IF trimEnd # Undefined
                      THEN [s1 EXCEPT !.durationInFrames = Max2(1, trimEnd - s1.startFrame)]
                      ELSE s1
                m1 == updateTotalDuration([m EXCEPT !.tracks[k].items[itemIndex] = s2])
                op == [type |-> "trim", trackId |-> trackId, itemId |-> itemId,
                       parameters |-> [oldDuration |-> old.durationInFrames,
                                       newDuration |-> s2.durationInFrames,
                                       trimStart |-> trimStart, trimEnd |-> trimEnd]]
            IN [tm |-> recordOperation(m1, op), ret |-> TRUE]

\* splitItem that forgets to shorten the first part
splitItem_NoTruncate(m, trackId, itemId, splitFrame) ==
  LET k == FindTrackIndex(m.tracks, trackId)
      itemIndex == IF k = 0 THEN 0 ELSE FindItemIndex(m.tracks[k].items, itemId)
  IN IF k = 0 \/ itemIndex = 0 THEN [tm |-> m, ret |-> FALSE]
     ELSE
       LET item == m.tracks[k].items[itemIndex]
           relativeFrame == splitFrame - item.startFrame
       IN IF m.tracks[k].isLocked \/ relativeFrame <= 0
               \/ relativeFrame >= item.durationInFrames
          THEN [tm |-> m, ret |-> FALSE]
          ELSE
            LET secondPart == [item EXCEPT !.id = m.nextId, !.startFrame = splitFrame,
                                           !.durationInFrames =
                                              item.durationInFrames - relativeFrame]
                m1 == [m EXCEPT !.tracks[k].items = Append(@, secondPart),
                                !.nextId = m.nextId + 1]
                op == [type |-> "split", trackId |-> trackId, itemId |-> itemId,
                       parameters |-> [splitFrame |-> splitFrame,
                                       secondPartId |-> secondPart.id]]
            IN [tm |-> recordOperation(m1, op), ret |-> TRUE]

\* splitItem that accepts the item's end frame as a split point
splitItem_InclusiveEnd(m, trackId, itemId, splitFrame) ==
  LET k == FindTrackIndex(m.tracks, trackId)
      itemIndex == IF k = 0 THEN 0 ELSE FindItemIndex(m.tracks[k].items, itemId)
  IN IF k = 0 \/ itemIndex = 0 THEN [tm |-> m, ret |-> FALSE]
     ELSE
       LET item == m.tracks[k].items[itemIndex]
           relativeFrame == splitFrame - item.startFrame
       IN IF m.tracks[k].isLocked \/ relativeFrame <= 0
               \/ relativeFrame > item.durationInFrames
          THEN [tm |-> m, ret |-> FALSE]
          ELSE
            LET secondPart == [item EXCEPT !.id = m.nextId, !.startFrame = splitFrame,
                                           !.durationInFrames =
                                              item.durationInFrames - relativeFrame]
                items == Append([m.tracks[k].items EXCEPT
                                   ![itemIndex].durationInFrames = relativeFrame],
                                secondPart)
                m1 == [m EXCEPT !.tracks[k].items = items, !.nextId = m.nextId + 1]
                op == [type |-> "split", trackId |-> trackId, itemId |-> itemId,
                       parameters |-> [splitFrame |-> splitFrame,
                                       secondPartId |-> secondPart.id]]
            IN [tm |-> recordOperation(m1, op), ret |-> TRUE]

\* splitItem: the total duration is not recomputed
splitItem(m, trackId, itemId, splitFrame) ==
  LET k == FindTrackIndex(m.tracks, trackId)
  IN IF k = 0 \/ m.tracks[k].isLocked THEN [tm |-> m, ret |-> FALSE]
     ELSE
       LET itemIndex == FindItemIndex(m.tracks[k].items, itemId)
       IN IF itemIndex = 0 THEN [tm |-> m, ret |-> FALSE]
          ELSE
            LET item == m.tracks[k].items[itemIndex]
                relativeFrame == splitFrame - item.startFrame
            IN IF relativeFrame <= 0 \/ relativeFrame >= item.durationInFrames
               THEN [tm |-> m, ret |-> FALSE]
               ELSE
                 LET secondPart == [item EXCEPT !.id = m.nextId,
                                                !.startFrame = splitFrame,
                                                !.durationInFrames =
                                                   item.durationInFrames - relativeFrame]
                     items == Append([m.tracks[k].items EXCEPT
                                        ![itemIndex].durationInFrames = relativeFrame],
                                     secondPart)
                     m1 == [m EXCEPT !.tracks[k].items = items, !.nextId = m.nextId + 1]
                     op == [type |-> "split", trackId |-> trackId, itemId |-> itemId,
                            parameters |-> [splitFrame |-> splitFrame,
                                            secondPartId |-> secondPart.id]]
                 IN [tm |-> recordOperation(m1, op), ret |-> TRUE]

\* executeReverseOperation and executeOperation only print the operation
executeReverseOperation(m, operation) == m

executeOperation(m, operation) == m

\* undo that copies the newest entry to the redo stack without popping it
undo_NoPop(m) ==
  IF m.undoStack = <<>> THEN [tm |-> m, ret |-> FALSE]
  ELSE [tm |-> [m EXCEPT !.redoStack = Append(@, m.undoStack[Len(m.undoStack)])],
        ret |-> TRUE]

undo(m) ==
  IF m.undoStack = <<>> THEN [tm |-> m, ret |-> FALSE]
  ELSE
    LET operation == m.undoStack[Len(m.undoStack)]
        m1 == executeReverseOperation(
                [m EXCEPT !.undoStack = SubSeq(@, 1, Len(@) - 1)], operation)
    IN [tm |-> [m1 EXCEPT !.redoStack = Append(@, operation)], ret |-> TRUE]

\* redo that drops the operation instead of pushing it back on the undo stack
redo_NoPush(m) ==
  IF m.redoStack = <<>> THEN [tm |-> m, ret |-> FALSE]
  ELSE [tm |-> [m EXCEPT !.redoStack = SubSeq(@, 1, Len(@) - 1)], ret |-> TRUE]

redo(m) ==
  IF m.redoStack = <<>> THEN [tm |-> m, ret |-> FALSE]
  ELSE
    LET operation == m.redoStack[Len(m.redoStack)]
        m1 == executeOperation(
                [m EXCEPT !.redoStack = SubSeq(@, 1, Len(@) - 1)], operation)
    IN [tm |-> [m1 EXCEPT !.undoStack = Append(@, operation)], ret |-> TRUE]

\* a holder of the Track object (createTrack and getTrack return it) sets isLocked
setLocked(m, trackId, flag) ==
  LET k == FindTrackIndex(m.tracks, trackId)
  IN IF k = 0 THEN m ELSE [m EXCEPT !.tracks[k].isLocked = flag]

\* ------------------------------------------------- the keyframe manager
RECURSIVE GCD(_, _)
GCD(a, b) == IF b = 0 THEN a ELSE GCD(b, a % b)

Abs(n) == IF n < 0 THEN 0 - n ELSE n

\* the number n / d, d > 0, in lowest terms
Rat(n, d) ==
  LET g == GCD(Abs(n), d)
  IN [num |-> n \div g, den |-> d \div g]

RatAdd(a, b) == Rat(a.num * b.den + b.num * a.den, a.den * b.den)

RatSub(a, b) == Rat(a.num * b.den - b.num * a.den, a.den * b.den)

RatMul(a, b) == Rat(a.num * b.num, a.den * b.den)

RatLess(a, b) == a.num * b.den < b.num * a.den

\* typeof v === 'number'
IsNumber(v) == "num" \in DOMAIN v

\* what getValue returns as undefined, and a keyframe without easing
NoValue == [undefined |-> TRUE]

NoEasing == "undefined"

NewKeyframeManager == <<>>

\* Array.prototype.sort((a, b) => a.frame - b.frame), which is stable
RECURSIVE SortByFrame(_)
InsertByFrame(sorted, kf) ==
  LET later == {i \in 1..Len(sorted) : sorted[i].frame > kf.frame}
      at == IF later = {} THEN Len(sorted) + 1
            ELSE CHOOSE i \in later : \A j \in later : i <= j
  IN SubSeq(sorted, 1, at - 1) \o <<kf>> \o SubSeq(sorted, at, Len(sorted))

SortByFrame(kfs) ==
  IF kfs = <<>> THEN <<>>
  ELSE InsertByFrame(SortByFrame(SubSeq(kfs, 1, Len(kfs) - 1)), kfs[Len(kfs)])

addKeyframe(kfm, itemId, keyframe) ==
  LET held == IF itemId \in DOMAIN kfm THEN kfm[itemId] ELSE <<>>
  IN [i \in DOMAIN kfm \cup {itemId} |->
        IF i = itemId THEN SortByFrame(Append(held, keyframe)) ELSE kfm[i]]

removeKeyframe(kfm, itemId, frame, property) ==
  IF itemId \notin DOMAIN kfm THEN [keyframes |-> kfm, ret |-> FALSE]
  ELSE
    LET hits == {i \in 1..Len(kfm[itemId]) :
                   kfm[itemId][i].frame = frame /\ kfm[itemId][i].property = property}
    IN IF hits = {} THEN [keyframes |-> kfm, ret |-> FALSE]
       ELSE [keyframes |->
               [kfm EXCEPT ![itemId] =
                  RemoveAt(@, CHOOSE i \in hits : \A j \in hits : i <= j)],
             ret |-> TRUE]

applyEasing(t, easing) ==
  CASE easing = "ease-in" -> RatMul(t, t)
    [] easing = "ease-out" ->
         RatSub(Rat(1, 1), RatMul(RatSub(Rat(1, 1), t), RatSub(Rat(1, 1), t)))
    [] easing = "ease-in-out" ->
         IF RatLess(t, Rat(1, 2)) THEN RatMul(Rat(2, 1), RatMul(t, t))
         ELSE RatAdd(Rat(-1, 1),
                     RatMul(RatSub(Rat(4, 1), RatMul(Rat(2, 1), t)), t))
    [] OTHER -> t

interpolate(start, end, progress, easing) ==
  LET easedProgress == applyEasing(progress, easing)
  IN IF IsNumber(start) /\ IsNumber(end)
     THEN RatAdd(start, RatMul(RatSub(end, start), easedProgress))
     ELSE start

getValue(kfm, itemId, frame, property) ==
  IF itemId \notin DOMAIN kfm THEN NoValue
  ELSE
    LET OfProperty(kf) == kf.property = property
        propertyKeyframes == SelectSeq(kfm[itemId], OfProperty)
        Exact(kf) == kf.frame = frame
        Before(kf) == kf.frame < frame
        After(kf) == kf.frame > frame
        exactKeyframes == SelectSeq(propertyKeyframes, Exact)
        beforeKeyframes == SelectSeq(propertyKeyframes, Before)
        afterKeyframes == SelectSeq(propertyKeyframes, After)
    IN IF propertyKeyframes = <<>> THEN NoValue
       ELSE IF exactKeyframes # <<>> THEN exactKeyframes[1].value
       ELSE IF beforeKeyframes = <<>> THEN afterKeyframes[1].value
       ELSE IF afterKeyframes = <<>>
            THEN beforeKeyframes[Len(beforeKeyframes)].value
       ELSE
         LET before == beforeKeyframes[Len(beforeKeyframes)]
             after == afterKeyframes[1]
             progress == Rat(frame - before.frame, after.frame - before.frame)
         IN interpolate(before.value, after.value, progress,
                        IF before.easing = NoEasing THEN "linear" ELSE before.easing)

\* ------------------------------------------------------------ the session
\* EditingSession.  A directive is [id, type, priority, parameters]; parameters
\* is "asset" (an object with an asset), "empty" (an object without one) or
\* "none" (the request carried no parameters object).  generatedAssets is the
\* Map as the sequence of its values in insertion order.
NewSession(sessionId) ==
  [sessionId |-> sessionId,
   tm |-> NewTimelineManager,
   isDirty |-> FALSE,
   directorAgent |-> "none",
   connectedAgents |-> <<>>,
   pendingDirectives |-> <<>>,
   completedDirectives |-> <<>>,
   generatedAssets |-> <<>>,
   editingStatus |-> [sessionId |-> sessionId, currentStep |-> 0, totalSteps |-> 0,
                      status |-> "idle", message |-> <<"Session created">>,
                      completedDirectives |-> <<>>, pendingDirectives |-> <<>>,
                      generatedAssets |-> <<>>]]

\* updateEditingStatus: the snapshot is rebuilt from the session's lists
updateEditingStatus(sess) ==
  [sess EXCEPT !.editingStatus =
     [sessionId |-> sess.sessionId,
      currentStep |-> Len(sess.completedDirectives),
      totalSteps |-> Len(sess.completedDirectives) + Len(sess.pendingDirectives),
      status |-> IF Len(sess.pendingDirectives) > 0 THEN "processing" ELSE "completed",
      message |-> <<Len(sess.completedDirectives), "tasks completed",
                    Len(sess.pendingDirectives), "pending">>,
      completedDirectives |-> sess.completedDirectives,
      pendingDirectives |-> [i \in 1..Len(sess.pendingDirectives) |->
                               sess.pendingDirectives[i].id],
      generatedAssets |-> sess.generatedAssets]]

\* markDirty that also empties the pending queue
markDirty_DropsQueue(sess) == [sess EXCEPT !.isDirty = TRUE, !.pendingDirectives = <<>>]

markDirty(sess) == [sess EXCEPT !.isDirty = TRUE]

registerAgent(sess, agentType, agentId) ==
  [sess EXCEPT !.connectedAgents = (agentType :> agentId) @@ @,
               !.directorAgent = IF agentType = "director" THEN agentId ELSE @]

\* Array.prototype.sort with (a, b) => a.priority - b.priority, which is stable:
\* each element goes behind the elements whose priority is not larger
InsertByPriority(sorted, d) ==
  LET before == {i \in 0..Len(sorted) :
                   \A j \in 1..i : sorted[j].priority <= d.priority}
      k == CHOOSE i \in before : \A o \in before : o <= i
  IN SubSeq(sorted, 1, k) \o <<d>> \o SubSeq(sorted, k + 1, Len(sorted))

RECURSIVE SortByPriority(_)
SortByPriority(ds) ==
  IF ds = <<>> THEN <<>>
  ELSE InsertByPriority(SortByPriority(SubSeq(ds, 1, Len(ds) - 1)), ds[Len(ds)])

\* addDirectives that appends without sorting
addDirectives_NoSort(sess, directives) ==
  updateEditingStatus([sess EXCEPT !.pendingDirectives = @ \o directives])

addDirectives(sess, directives) ==
  updateEditingStatus(
    [sess EXCEPT !.pendingDirectives = SortByPriority(@ \o directives)])

\* Map.set: a known id keeps its place, a new one goes last
addGeneratedAsset(sess, asset) ==
  LET hits == {i \in 1..Len(sess.generatedAssets) : sess.generatedAssets[i].id = asset.id}
  IN updateEditingStatus(
       [sess EXCEPT !.generatedAssets =
          IF hits = {} THEN Append(@, asset)
          ELSE [i \in 1..Len(@) |-> IF i \in hits THEN asset ELSE @[i]]])

\* getNextDirective that reads the head of the queue without removing it
getNextDirective_Peek(sess) == sess

\* getNextDirective: shift(); the snapshot is not rebuilt
getNextDirective(sess) == [sess EXCEPT !.pendingDirectives = Tail(@)]

\* markDirectiveCompleted that forgets to rebuild the snapshot
markDirectiveCompleted_NoUpdate(sess, directiveId) ==
  [sess EXCEPT !.completedDirectives = Append(@, directiveId)]

markDirectiveCompleted(sess, directiveId) ==
  updateEditingStatus([sess EXCEPT !.completedDirectives = Append(@, directiveId)])

\* String.prototype.includes over the track names in use
NameIncludes(name, part) ==
  CASE part = "Text" -> name \in {"Text Overlay"}
    [] part = "BGM" -> name \in {"BGM Track"}
    [] OTHER -> FALSE

\* Array.prototype.find over getTracks(): the first track whose name includes
\* part, 0 when there is none
FindTrackByName(m, part) ==
  LET hits == {i \in 1..Len(m.tracks) : NameIncludes(m.tracks[i].name, part)}
  IN IF hits = {} THEN 0 ELSE CHOOSE i \in hits : \A j \in hits : i <= j

\* executeDirective: [sess |-> the session afterwards, threw |-> whether it threw].
\* Only executeAddBGM reads its parameters: params.asset throws a TypeError for a
\* directive without a parameters object, and with an asset it finds or creates
\* the BGM track.  The other kinds have empty bodies.
executeDirective(sess, directive) ==
  IF directive.type = "add_bgm"
  THEN IF directive.parameters = "none" THEN [sess |-> sess, threw |-> TRUE]
       ELSE IF directive.parameters = "asset" /\ FindTrackByName(sess.tm, "BGM") = 0
            THEN [sess |-> [sess EXCEPT !.tm =
                              createTrack(@, "Background Music", "audio").tm],
                  threw |-> FALSE]
            ELSE [sess |-> sess, threw |-> FALSE]
  ELSE [sess |-> sess, threw |-> FALSE]

\* ------------------------------------------------------------- the server
\* MCPVideoEditingServer.handleRequest: each handler is an operator from the
\* server and the request's parameters to [server |-> the server afterwards,
\* out |-> what processRequest returned or threw].  handleRequest wraps a
\* returned value as {id, result} and a thrown error as {id, error}.
NewServer == [sessions |-> <<>>, nextSessionId |-> 1]

SessionIds(srv) == DOMAIN srv.sessions

Returned(srv, result) == [server |-> srv, out |-> [result |-> result]]

Threw(srv, message) ==
  [server |-> srv, out |-> [error |-> [code |-> -1, message |-> message]]]

\* handleRequest that answers an error together with a null result
handleRequest_ResultWithError(id, out) ==
  IF "error" \in DOMAIN out THEN [id |-> id, result |-> "null"] @@ out
  ELSE [id |-> id] @@ out

\* handleRequest: {id, result} for a returned value, {id, error} for a thrown one
handleRequest(id, out) == [id |-> id] @@ out

\* processRequest, default case
handleUnknownMethod(srv, method) == Threw(srv, <<"Unknown method", method>>)

WithSession(srv, sessionId, sess) ==
  [srv EXCEPT !.sessions = (sessionId :> sess) @@ @]

createSession(srv) ==
  Returned([srv EXCEPT !.sessions = (srv.nextSessionId :> NewSession(srv.nextSessionId)) @@ @,
                       !.nextSessionId = @ + 1],
           [sessionId |-> srv.nextSessionId])

\* deleteSession that reports success whether or not the session existed
deleteSession_AlwaysTrue(srv, sessionId) ==
  Returned([srv EXCEPT !.sessions =
              [x \in SessionIds(srv) \ {sessionId} |-> srv.sessions[x]]],
           [success |-> TRUE])

deleteSession(srv, sessionId) ==
  IF sessionId \in SessionIds(srv)
  THEN Returned([srv EXCEPT !.sessions =
                   [x \in SessionIds(srv) \ {sessionId} |-> srv.sessions[x]]],
                [success |-> TRUE])
  ELSE Returned(srv, [success |-> FALSE])

\* Array.from(this.sessions.keys()): the identifiers in insertion order, which
\* is the order in which createSession issued them
handleSessionList(srv) ==
  LET ids == SessionIds(srv)
  IN Returned(srv,
              [sessions |->
                 [i \in 1..Cardinality(ids) |->
                    CHOOSE x \in ids : Cardinality({y \in ids : y <= x}) = i]])

handleAgentRegister(srv, sessionId, agentId, agentType) ==
  IF sessionId \notin SessionIds(srv) THEN Threw(srv, "Session not found")
  ELSE Returned(WithSession(srv, sessionId,
                            registerAgent(srv.sessions[sessionId], agentType, agentId)),
                [success |-> TRUE, message |-> <<"Agent registered", agentId, agentType>>])

handleSubmitAsset(srv, sessionId, asset) ==
  IF sessionId \notin SessionIds(srv) THEN Threw(srv, "Session not found")
  ELSE Returned(WithSession(srv, sessionId,
                            addGeneratedAsset(srv.sessions[sessionId], asset)),
                [success |-> TRUE, message |-> <<"Asset received", asset.id>>])

\* handleSubmitDirectives over one queue that every session shares
handleSubmitDirectives_SharedQueue(srv, sessionId, directives) ==
  IF sessionId \notin SessionIds(srv) THEN Threw(srv, "Session not found")
  ELSE LET sess == addDirectives(srv.sessions[sessionId], directives)
       IN Returned([srv EXCEPT !.sessions =
                      [x \in SessionIds(srv) |->
                         addDirectives(srv.sessions[x], directives)]],
                   [success |-> TRUE,
                    message |-> <<Len(directives), "directives received">>,
                    editingStatus |-> sess.editingStatus])

handleSubmitDirectives(srv, sessionId, directives) ==
  IF sessionId \notin SessionIds(srv) THEN Threw(srv, "Session not found")
  ELSE LET sess == addDirectives(srv.sessions[sessionId], directives)
       IN Returned(WithSession(srv, sessionId, sess),
                   [success |-> TRUE,
                    message |-> <<Len(directives), "directives received">>,
                    editingStatus |-> sess.editingStatus])

handleGetStatus(srv, sessionId) ==
  IF sessionId \notin SessionIds(srv) THEN Threw(srv, "Session not found")
  ELSE Returned(srv, [editingStatus |-> srv.sessions[sessionId].editingStatus])

\* handleExecuteNext that rebuilds the snapshot before looking at the queue
handleExecuteNext_UpdateFirst(srv, sessionId) ==
  IF sessionId \notin SessionIds(srv) THEN Threw(srv, "Session not found")
  ELSE
    LET sess == updateEditingStatus(srv.sessions[sessionId])
    IN IF sess.pendingDirectives = <<>>
       THEN Returned(WithSession(srv, sessionId, sess),
                     [success |-> FALSE, message |-> <<"No pending directives">>])
       ELSE
         LET directive == Head(sess.pendingDirectives)
             run == executeDirective(getNextDirective(sess), directive)
         IN IF run.threw
            THEN Returned(WithSession(srv, sessionId, run.sess),
                          [success |-> FALSE,
                           message |-> <<"Failed to execute directive">>])
            ELSE LET done == markDirectiveCompleted(run.sess, directive.id)
                 IN Returned(WithSession(srv, sessionId, done),
                             [success |-> TRUE,
                              message |-> <<"Directive completed", directive.id>>,
                              editingStatus |-> done.editingStatus])

handleExecuteNext(srv, sessionId) ==
  IF sessionId \notin SessionIds(srv) THEN Threw(srv, "Session not found")
  ELSE
    LET sess == srv.sessions[sessionId]
    IN IF sess.pendingDirectives = <<>>
       THEN Returned(srv, [success |-> FALSE, message |-> <<"No pending directives">>])
       ELSE
         LET directive == Head(sess.pendingDirectives)
             run == executeDirective(getNextDirective(sess), directive)
         IN IF run.threw
            THEN Returned(WithSession(srv, sessionId, run.sess),
                          [success |-> FALSE,
                           message |-> <<"Failed to execute directive">>])
            ELSE LET done == markDirectiveCompleted(run.sess, directive.id)
                 IN Returned(WithSession(srv, sessionId, done),
                             [success |-> TRUE,
                              message |-> <<"Directive completed", directive.id>>,
                              editingStatus |-> done.editingStatus])

\* handleExecuteNext is an async function with one await, on executeDirective.
\* A call runs without interruption up to the await: the session lookup, the
\* shift of the queue and the body of the execute* method, which has no await
\* of its own.  There it is suspended; what follows the await runs later, and
\* other requests can be handled in between.  A call that throws or returns
\* before the await is not suspended.  A suspended call is a record of its
\* session, its directive and whether executeDirective threw.
NoFlight == [sessionId |-> NoId, directive |-> [id |-> NoId], threw |-> FALSE]

\* the part before the await, without the shift of the queue
executeNextBegin_NoShift(srv, sessionId) ==
  IF sessionId \notin SessionIds(srv)
  THEN Threw(srv, "Session not found") @@ [suspended |-> FALSE, flight |-> NoFlight]
  ELSE
    LET sess == srv.sessions[sessionId]
    IN IF sess.pendingDirectives = <<>>
       THEN Returned(srv, [success |-> FALSE, message |-> <<"No pending directives">>])
              @@ [suspended |-> FALSE, flight |-> NoFlight]
       ELSE
         LET directive == Head(sess.pendingDirectives)
             run == executeDirective(sess, directive)
         IN [server |-> WithSession(srv, sessionId, run.sess),
             out |-> [result |-> [success |-> FALSE, message |-> <<>>]],
             suspended |-> TRUE,
             flight |-> [sessionId |-> sessionId, directive |-> directive,
                         threw |-> run.threw]]

\* the part before the await; out is read only for a call that is not suspended
executeNextBegin(srv, sessionId) ==
  IF sessionId \notin SessionIds(srv)
  THEN Threw(srv, "Session not found") @@ [suspended |-> FALSE, flight |-> NoFlight]
  ELSE
    LET sess == srv.sessions[sessionId]
    IN IF sess.pendingDirectives = <<>>
       THEN Returned(srv, [success |-> FALSE, message |-> <<"No pending directives">>])
              @@ [suspended |-> FALSE, flight |-> NoFlight]
       ELSE
         LET directive == Head(sess.pendingDirectives)
             run == executeDirective(getNextDirective(sess), directive)
         IN [server |-> WithSession(srv, sessionId, run.sess),
             out |-> [result |-> [success |-> FALSE, message |-> <<>>]],
             suspended |-> TRUE,
             flight |-> [sessionId |-> sessionId, directive |-> directive,
                         threw |-> run.threw]]

\* the part after the await: the catch branch, or markDirectiveCompleted on the
\* session object the call holds, which is in the table unless deleted since
executeNextFinish(srv, flight) ==
  IF flight.threw
  THEN Returned(srv, [success |-> FALSE, message |-> <<"Failed to execute directive">>])
  ELSE IF flight.sessionId \notin SessionIds(srv)
       THEN Returned(srv, [success |-> TRUE,
                           message |-> <<"Directive completed", flight.directive.id>>])
       ELSE LET done == markDirectiveCompleted(srv.sessions[flight.sessionId],
                                               flight.directive.id)
            IN Returned(WithSession(srv, flight.sessionId, done),
                        [success |-> TRUE,
                         message |-> <<"Directive completed", flight.directive.id>>,
                         editingStatus |-> done.editingStatus])

\* only x stands for the seven optional properties (x, y, width, height,
\* opacity, scale, rotation), which are all copied the same way
TextDuration == 90

DefaultTextX == 50

handleCreateTrack(srv, sessionId, name, type) ==
  IF sessionId \notin SessionIds(srv) THEN Threw(srv, "Session not found")
  ELSE
    LET sess == srv.sessions[sessionId]
        trackType == IF type = "overlay" THEN "video" ELSE type
        made == createTrack(sess.tm, name, trackType)
    IN Returned(WithSession(srv, sessionId, markDirty([sess EXCEPT !.tm = made.tm])),
                [track |-> made.ret])

\* handleAddText: startFrame || 0 and x || 50, so 0 and undefined give the default
handleAddText(srv, sessionId, startFrame, x) ==
  IF sessionId \notin SessionIds(srv) THEN Threw(srv, "Session not found")
  ELSE
    LET sess == srv.sessions[sessionId]
        found == FindTrackByName(sess.tm, "Text")
        m0 == IF found = 0 THEN createTrack(sess.tm, "Text Overlay", "video").tm
              ELSE sess.tm
        textTrack == IF found = 0 THEN m0.tracks[Len(m0.tracks)] ELSE m0.tracks[found]
        textItem == [id |-> m0.nextId,
                     startFrame |-> IF startFrame \in {Undefined, 0} THEN 0 ELSE startFrame,
                     durationInFrames |-> TextDuration,
                     x |-> IF x \in {Undefined, 0} THEN DefaultTextX ELSE x]
        added == addItemToTrack([m0 EXCEPT !.nextId = @ + 1], textTrack.id, textItem,
                                Undefined)
        sess1 == [sess EXCEPT !.tm = added.tm]
    IN Returned(WithSession(srv, sessionId, IF added.ret THEN markDirty(sess1) ELSE sess1),
                [success |-> added.ret, mediaItem |-> textItem.id, track |-> textTrack.id])

\* handleMoveClip, handleTrimClip, handleSplitClip, handleDeleteClip: the
\* manager's call, markDirty() when it returned true, and {success}
ClipResult(srv, sessionId, r) ==
  LET sess == [srv.sessions[sessionId] EXCEPT !.tm = r.tm]
  IN Returned(WithSession(srv, sessionId, IF r.ret THEN markDirty(sess) ELSE sess),
              [success |-> r.ret])

\* handleMoveClip that answers {success: false} for a missing session
handleMoveClip_NoThrow(srv, sessionId, trackId, itemId, newStartFrame, newTrackId) ==
  IF sessionId \notin SessionIds(srv) THEN Returned(srv, [success |-> FALSE])
  ELSE ClipResult(srv, sessionId,
                  moveItem(srv.sessions[sessionId].tm, trackId, itemId, newStartFrame,
                           newTrackId))

handleMoveClip(srv, sessionId, trackId, itemId, newStartFrame, newTrackId) ==
  IF sessionId \notin SessionIds(srv) THEN Threw(srv, "Session not found")
  ELSE ClipResult(srv, sessionId,
                  moveItem(srv.sessions[sessionId].tm, trackId, itemId, newStartFrame,
                           newTrackId))

handleTrimClip(srv, sessionId, trackId, itemId, startFrame, endFrame) ==
  IF sessionId \notin SessionIds(srv) THEN Threw(srv, "Session not found")
  ELSE ClipResult(srv, sessionId,
                  trimItem(srv.sessions[sessionId].tm, trackId, itemId, startFrame,
                           endFrame))

handleSplitClip(srv, sessionId, trackId, itemId, splitFrame) ==
  IF sessionId \notin SessionIds(srv) THEN Threw(srv, "Session not found")
  ELSE ClipResult(srv, sessionId,
                  splitItem(srv.sessions[sessionId].tm, trackId, itemId, splitFrame))

handleDeleteClip(srv, sessionId, trackId, itemId) ==
  IF sessionId \notin SessionIds(srv) THEN Threw(srv, "Session not found")
  ELSE ClipResult(srv, sessionId,
                  removeItemFromTrack(srv.sessions[sessionId].tm, trackId, itemId))

\* handleGetTimeline: the tracks and the total duration (the current frame is
\* not part of the manager record)
handleGetTimeline(srv, sessionId) ==
  IF sessionId \notin SessionIds(srv) THEN Threw(srv, "Session not found")
  ELSE Returned(srv, [tracks |-> srv.sessions[sessionId].tm.tracks,
                      totalDuration |-> srv.sessions[sessionId].tm.totalDuration])

\* handleSetProperties: no test of isLocked, no log entry
handleSetProperties(srv, sessionId, trackId, itemId, x) ==
  IF sessionId \notin SessionIds(srv) THEN Threw(srv, "Session not found")
  ELSE
    LET sess == srv.sessions[sessionId]
        k == FindTrackIndex(sess.tm.tracks, trackId)
    IN IF k = 0 THEN Threw(srv, "Track not found")
       ELSE
         LET j == FindItemIndex(sess.tm.tracks[k].items, itemId)
         IN IF j = 0 THEN Threw(srv, "Item not found")
            ELSE
              LET sess1 == IF x # Undefined
                           THEN [sess EXCEPT !.tm.tracks[k].items[j].x = x] ELSE sess
              IN Returned(WithSession(srv, sessionId, markDirty(sess1)),
                          [success |-> TRUE, mediaItem |-> itemId])

\* ------------------------------------------------------ the simple server
\* The express server of src/unnamed/part_000: its own session table, with the
\* directives kept in a plain array.  A handler is an operator from the server
\* and the request to [server |-> the server afterwards, out |-> the response
\* body].  Identifiers and response ids built from Date.now() are one token,
\* NowId: nothing in the server reads them back.
NowId == "now"

\* the frame rate, and the times of a text directive that gives none
Fps == 30

DefaultStartTime == 0

DefaultEndTime == 3

NewSimpleServer == [sessions |-> <<>>, sessionCounter |-> 1]

NewSimpleSession(sessionId) ==
  [id |-> sessionId, tracks |-> <<>>, currentFrame |-> 0, totalDuration |-> 0,
   directives |-> <<>>, completedDirectives |-> <<>>]

SimpleAnswered(srv, result) == [server |-> srv, out |-> [id |-> NowId, result |-> result]]

\* res.status(404).json({ error: 'Session not found' })
SimpleNotFound(srv) == [server |-> srv, out |-> [error |-> "Session not found"]]

\* an exception in a handler: express answers 500
SimpleFailed(srv) == [server |-> srv, out |-> [error |-> "Internal Server Error"]]

simpleCreateSession(srv) ==
  LET sessionId == srv.sessionCounter
  IN SimpleAnswered([srv EXCEPT !.sessions = (sessionId :> NewSimpleSession(sessionId)) @@ @,
                                !.sessionCounter = @ + 1],
                    [sessionId |-> sessionId])

\* the editingStatus object that the three handlers build
simpleEditingStatus(session, status, message) ==
  [sessionId |-> session.id,
   currentStep |-> Len(session.completedDirectives),
   totalSteps |-> Len(session.directives) + Len(session.completedDirectives),
   status |-> status,
   message |-> message,
   completedDirectives |-> session.completedDirectives,
   pendingDirectives |-> [i \in 1..Len(session.directives) |-> session.directives[i].id],
   generatedAssets |-> <<>>]

\* POST /sessions/:sessionId/directives
simpleSubmitDirectives(srv, sessionId, directives) ==
  IF sessionId \notin DOMAIN srv.sessions THEN SimpleNotFound(srv)
  ELSE LET session == [srv.sessions[sessionId] EXCEPT !.directives = @ \o directives]
       IN SimpleAnswered(
            [srv EXCEPT !.sessions[sessionId] = session],
            [success |-> TRUE,
             message |-> <<Len(directives), "directives received">>,
             editingStatus |->
               simpleEditingStatus(session, "processing",
                                   <<Len(directives), "directives received">>)])

\* GET /sessions/:sessionId/status
simpleGetStatus(srv, sessionId) ==
  IF sessionId \notin DOMAIN srv.sessions THEN SimpleNotFound(srv)
  ELSE LET session == srv.sessions[sessionId]
       IN SimpleAnswered(
            srv,
            [editingStatus |->
               simpleEditingStatus(
                 session,
                 IF Len(session.directives) > 0 THEN "processing" ELSE "idle",
                 <<Len(session.completedDirectives), "completed",
                   Len(session.directives), "pending">>)])

\* the add_text branch of the execute handler: find or create the text track,
\* push the item, raise totalDuration
simpleAddText(session) ==
  LET hits == {i \in 1..Len(session.tracks) : NameIncludes(session.tracks[i].name, "Text")}
      tracks == IF hits # {} THEN session.tracks
                ELSE Append(session.tracks,
                            [id |-> NowId, name |-> "Text Overlay", type |-> "video",
                             items |-> <<>>, isLocked |-> FALSE])
      k == IF hits # {} THEN CHOOSE i \in hits : \A j \in hits : i <= j
           ELSE Len(tracks)
      textItem == [id |-> NowId,
                   startFrame |-> DefaultStartTime * Fps,
                   durationInFrames |-> (DefaultEndTime - DefaultStartTime) * Fps,
                   x |-> 50]
  IN [session EXCEPT !.tracks = [tracks EXCEPT ![k].items = Append(@, textItem)],
                     !.totalDuration = Max2(@, ItemEnd(textItem))]

\* POST /sessions/:sessionId/execute: the directive is shifted and its id pushed
\* to completedDirectives before anything is executed; an add_text directive
\* without a parameters object throws on parameters.text after that
simpleExecute(srv, sessionId) ==
  IF sessionId \notin DOMAIN srv.sessions THEN SimpleNotFound(srv)
  ELSE
    LET session == srv.sessions[sessionId]
    IN IF Len(session.directives) = 0
       THEN SimpleAnswered(srv, [success |-> FALSE, message |-> <<"No pending directives">>])
       ELSE
         LET directive == Head(session.directives)
             shifted == [session EXCEPT !.directives = Tail(@),
                                        !.completedDirectives = Append(@, directive.id)]
         IN IF directive.type = "add_text" /\ directive.parameters = "none"
            THEN SimpleFailed([srv EXCEPT !.sessions[sessionId] = shifted])
            ELSE
              LET done == IF directive.type = "add_text" THEN simpleAddText(shifted)
                          ELSE shifted
              IN SimpleAnswered(
                   [srv EXCEPT !.sessions[sessionId] = done],
                   [success |-> TRUE,
                    message |-> <<"Directive completed", directive.id>>,
                    editingStatus |->
                      simpleEditingStatus(
                        done,
                        IF Len(done.directives) > 0 THEN "processing" ELSE "completed",
                        <<"Directive completed", directive.id>>)])

\* ------------------------------------------------- the timeline engine
\* hist follows a successful mutating call through an undo() and a redo() made
\* right after it: phase 1 after the call (pre and post are the manager before
\* and after it), 2 after call; undo, 3 after call; undo; redo, 0 otherwise.
NoHist == [phase |-> 0, pre |-> NewTimelineManager, post |-> NewTimelineManager]

\* last is the last call made on the manager, or the last request handled by
\* the server: the method, the request's id, the arguments (frames holds the
\* frame arguments in order), the value a manager call returned and, for
\* getValue, the number, string or undefined it returned
NoCall == [op |-> "none", requestId |-> "none", sessionId |-> NoId, trackId |-> NoId,
           itemId |-> NoId, newTrackId |-> NoId, frames |-> <<>>, property |-> "none",
           ret |-> FALSE, value |-> NoValue]

NoResponse == [id |-> "none"]

TrackIds(m) == {m.tracks[t].id : t \in 1..Len(m.tracks)}

ItemIds(m) == UNION {{m.tracks[t].items[i].id : i \in 1..Len(m.tracks[t].items)} :
                       t \in 1..Len(m.tracks)}

\* arguments of a call: what exists, and one identifier naming nothing
TrackArgs(m) == TrackIds(m) \cup {NoId}

ItemArgs(m) == ItemIds(m) \cup {NoId}

\* frame arguments: every frame for a call naming a track and an item, one frame
\* for a call that names nothing
FrameArgs(t, i) == IF t = NoId \/ i = NoId THEN {0} ELSE Frames

OptFrameArgs(t, i) == IF t = NoId \/ i = NoId THEN {Undefined} ELSE {Undefined} \cup Frames

TrackKinds == {[name |-> "Video Track", type |-> "video"]}

Called(op, trackId, itemId, newTrackId, frames, r) ==
  /\ tm' = r.tm
  /\ last' = [NoCall EXCEPT !.op = op, !.trackId = trackId, !.itemId = itemId,
                            !.newTrackId = newTrackId, !.frames = frames,
                            !.ret = r.ret]
  /\ hist' = IF r.ret THEN [phase |-> 1, pre |-> tm, post |-> r.tm] ELSE NoHist
  /\ ops' = IF r.ret THEN ops + 1 ELSE ops
  /\ UNCHANGED <<serverVars, otherVars>>

CreateTrack ==
  /\ tm.nextId <= MaxIds
  /\ \E k \in TrackKinds :
       /\ tm' = createTrack(tm, k.name, k.type).tm
       /\ last' = [NoCall EXCEPT !.op = "createTrack", !.trackId = tm.nextId,
                                 !.ret = TRUE]
  /\ hist' = NoHist
  /\ UNCHANGED <<ops, serverVars, otherVars>>

DeleteTrack ==
  /\ \E t \in TrackArgs(tm) :
       LET r == deleteTrack(tm, t)
       IN /\ tm' = r.tm
          /\ last' = [NoCall EXCEPT !.op = "deleteTrack", !.trackId = t, !.ret = r.ret]
  /\ hist' = NoHist
  /\ UNCHANGED <<ops, serverVars, otherVars>>

LockTrack ==
  /\ \E t \in TrackIds(tm), flag \in BOOLEAN :
       /\ tm' = setLocked(tm, t, flag)
       /\ last' = [NoCall EXCEPT !.op = "setLocked", !.trackId = t, !.ret = flag]
  /\ hist' = NoHist
  /\ UNCHANGED <<ops, serverVars, otherVars>>

\* the item's own startFrame is used when insertFrame is undefined, and is
\* overwritten otherwise
AddInputs ==
  {[startFrame |-> s, insertFrame |-> Undefined] : s \in Frames}
    \cup {[startFrame |-> 0, insertFrame |-> f] : f \in Frames}

AddItem ==
  /\ tm.nextId <= MaxIds
  /\ ops < MaxOps
  /\ \E t \in TrackArgs(tm) :
     \E in \in IF t = NoId THEN {[startFrame |-> 0, insertFrame |-> Undefined]}
                ELSE AddInputs,
        d \in IF t = NoId THEN {1} ELSE Durations :
       LET item == [id |-> tm.nextId, startFrame |-> in.startFrame,
                    durationInFrames |-> d, x |-> 0]
           r == addItemToTrack([tm EXCEPT !.nextId = @ + 1], t, item, in.insertFrame)
       IN Called("addItem", t, item.id, NoId, <<in.startFrame, d, in.insertFrame>>,
                 IF r.ret THEN r ELSE [r EXCEPT !.tm = tm])

RemoveItem ==
  /\ ops < MaxOps
  /\ \E t \in TrackArgs(tm), i \in ItemArgs(tm) :
       Called("removeItem", t, i, NoId, <<>>, removeItemFromTrack(tm, t, i))

MoveItem ==
  /\ ops < MaxOps
  /\ \E t \in TrackArgs(tm), i \in ItemArgs(tm), n \in TrackArgs(tm) \cup {Undefined} :
     \E s \in FrameArgs(t, i) :
       Called("moveItem", t, i, n, <<s>>, moveItem(tm, t, i, s, n))

TrimItem ==
  /\ ops < MaxOps
  /\ \E t \in TrackArgs(tm), i \in ItemArgs(tm) :
     \E trimStart \in OptFrameArgs(t, i), trimEnd \in OptFrameArgs(t, i) :
       Called("trimItem", t, i, NoId, <<trimStart, trimEnd>>,
              trimItem(tm, t, i, trimStart, trimEnd))

SplitItem ==
  /\ tm.nextId <= MaxIds
  /\ ops < MaxOps
  /\ \E t \in TrackArgs(tm), i \in ItemArgs(tm) :
     \E f \in FrameArgs(t, i) :
       Called("splitItem", t, i, NoId, <<f>>, splitItem(tm, t, i, f))

Undo ==
  LET r == undo(tm)
  IN /\ tm' = r.tm
     /\ last' = [NoCall EXCEPT !.op = "undo", !.ret = r.ret]
     /\ hist' = IF r.ret /\ hist.phase = 1 THEN [hist EXCEPT !.phase = 2] ELSE NoHist
     /\ UNCHANGED <<ops, serverVars, otherVars>>

Redo ==
  LET r == redo(tm)
  IN /\ tm' = r.tm
     /\ last' = [NoCall EXCEPT !.op = "redo", !.ret = r.ret]
     /\ hist' = IF r.ret /\ hist.phase = 2 THEN [hist EXCEPT !.phase = 3] ELSE NoHist
     /\ UNCHANGED <<ops, serverVars, otherVars>>

Init ==
  /\ tm = NewTimelineManager
  /\ hist = NoHist
  /\ last = NoCall
  /\ ops = 0
  /\ server = NewServer
  /\ resp = NoResponse
  /\ submitted = <<>>
  /\ keyframes = NewKeyframeManager
  /\ inflight = <<>>
  /\ simple = NewSimpleServer
  /\ simpleResp = NoResponse

Next ==
  \/ CreateTrack
  \/ DeleteTrack
  \/ LockTrack
  \/ AddItem
  \/ RemoveItem
  \/ MoveItem
  \/ TrimItem
  \/ SplitItem
  \/ Undo
  \/ Redo

Spec == Init /\ [][Next]_vars

\* ----------------------------------------- the operation log at its limit
\* The log is first filled to one entry below its limit by createTrack, one
\* addItemToTrack and moveItem calls that send the item through the frames in
\* turn; from there on every item mutation, undo() and redo() is called, with
\* at most MaxOps entries on the redo stack.
LogFilled == ops > 0 \/ Len(tm.undoStack) + Len(tm.redoStack) >= UndoLimit - 1

FillLog ==
  /\ ~LogFilled
  /\ \/ /\ tm.tracks = <<>>
        /\ tm' = createTrack(tm, "Video Track", "video").tm
        /\ last' = [NoCall EXCEPT !.op = "createTrack", !.trackId = tm.nextId,
                                  !.ret = TRUE]
     \/ /\ tm.tracks # <<>>
        /\ tm.tracks[1].items = <<>>
        /\ LET item == [id |-> tm.nextId, startFrame |-> 0, durationInFrames |-> 1,
                        x |-> 0]
               r == addItemToTrack([tm EXCEPT !.nextId = @ + 1], tm.tracks[1].id,
                                   item, Undefined)
           IN /\ tm' = r.tm
              /\ last' = [NoCall EXCEPT !.op = "addItem", !.trackId = tm.tracks[1].id,
                                        !.itemId = item.id,
                                        !.frames = <<0, 1, Undefined>>, !.ret = r.ret]
     \/ /\ tm.tracks # <<>>
        /\ tm.tracks[1].items # <<>>
        /\ LET t == tm.tracks[1].id
               i == tm.tracks[1].items[1].id
               f == Len(tm.undoStack) % (MaxFrame + 1)
               r == moveItem(tm, t, i, f, Undefined)
           IN /\ tm' = r.tm
              /\ last' = [NoCall EXCEPT !.op = "moveItem", !.trackId = t, !.itemId = i,
                                        !.newTrackId = Undefined, !.frames = <<f>>,
                                        !.ret = r.ret]
  /\ hist' = NoHist
  /\ UNCHANGED <<ops, serverVars, otherVars>>

NextLog ==
  \/ FillLog
  \/ LogFilled /\ AddItem
  \/ LogFilled /\ RemoveItem
  \/ LogFilled /\ MoveItem
  \/ LogFilled /\ TrimItem
  \/ LogFilled /\ SplitItem
  \/ LogFilled /\ Len(tm.redoStack) < MaxOps /\ Undo
  \/ LogFilled /\ Redo

SpecLog == Init /\ [][NextLog]_vars

\* -------------------------------------------- three items on one track
\* addItemToTrack calls alone, up to three items, which is what a chain of
\* displacements needs: MaxChainIds bounds the identifiers instead of MaxIds
\* and MaxOps.
ChainAddItem ==
  /\ tm.nextId <= MaxChainIds
  /\ \E t \in TrackIds(tm), in \in AddInputs, d \in Durations :
       LET item == [id |-> tm.nextId, startFrame |-> in.startFrame,
                    durationInFrames |-> d, x |-> 0]
           r == addItemToTrack([tm EXCEPT !.nextId = @ + 1], t, item, in.insertFrame)
       IN Called("addItem", t, item.id, NoId, <<in.startFrame, d, in.insertFrame>>,
                 IF r.ret THEN r ELSE [r EXCEPT !.tm = tm])

NextChain ==
  \/ Len(tm.tracks) = 0 /\ CreateTrack
  \/ ChainAddItem

SpecChain == Init /\ [][NextChain]_vars

\* ------------------------------------------- trims among several items
\* The items of the chain above, trimmed: trimItem is called on the track's
\* items while fewer than MaxIds calls have succeeded, so that a trim can
\* follow two additions.
ChainTrimItem ==
  /\ ops < MaxIds
  /\ \E t \in TrackIds(tm), i \in ItemIds(tm) :
     \E trimStart \in OptFrameArgs(t, i), trimEnd \in OptFrameArgs(t, i) :
       Called("trimItem", t, i, NoId, <<trimStart, trimEnd>>,
              trimItem(tm, t, i, trimStart, trimEnd))

NextTrim ==
  \/ Len(tm.tracks) = 0 /\ CreateTrack
  \/ ChainAddItem
  \/ ChainTrimItem

SpecTrim == Init /\ [][NextTrim]_vars

\* ------------------------------------------------- keyframe animation
\* A KeyframeManager alone: keyframes are added, removed and evaluated for one
\* item (and evaluated and removed for an item that has none).
KeyframeItems == {1}

KeyframeFrames == {0, 30}

QueryFrames == {0, 15, 30, 45}

Properties == {"opacity", "scale"}

Values == {Rat(0, 1), Rat(1, 1), [text |-> "red"]}

Easings == {NoEasing, "linear", "ease-in", "ease-out", "ease-in-out"}

KeyframeCount ==
  LET RECURSIVE Sum(_)
      Sum(ids) == IF ids = {} THEN 0
                  ELSE LET i == CHOOSE x \in ids : TRUE
                       IN Len(keyframes[i]) + Sum(ids \ {i})
  IN Sum(DOMAIN keyframes)

AddKeyframe ==
  /\ KeyframeCount < MaxKeyframes
  /\ \E i \in KeyframeItems, f \in KeyframeFrames, p \in Properties, v \in Values,
        e \in Easings :
       /\ keyframes' = addKeyframe(keyframes, i,
                                   [frame |-> f, property |-> p, value |-> v,
                                    easing |-> e])
       /\ last' = [NoCall EXCEPT !.op = "addKeyframe", !.itemId = i, !.frames = <<f>>,
                                 !.property = p, !.ret = TRUE]
  /\ UNCHANGED <<timelineVars, serverVars, inflight, simple, simpleResp>>

RemoveKeyframe ==
  /\ \E i \in KeyframeItems \cup {NoId}, f \in KeyframeFrames, p \in Properties :
       LET r == removeKeyframe(keyframes, i, f, p)
       IN /\ keyframes' = r.keyframes
          /\ last' = [NoCall EXCEPT !.op = "removeKeyframe", !.itemId = i,
                                    !.frames = <<f>>, !.property = p, !.ret = r.ret]
  /\ UNCHANGED <<timelineVars, serverVars, inflight, simple, simpleResp>>

GetValue ==
  /\ \E i \in KeyframeItems \cup {NoId}, f \in QueryFrames, p \in Properties :
       last' = [NoCall EXCEPT !.op = "getValue", !.itemId = i, !.frames = <<f>>,
                              !.property = p, !.value = getValue(keyframes, i, f, p)]
  /\ UNCHANGED <<timelineVars, serverVars, otherVars>>

NextKeyframes ==
  \/ AddKeyframe
  \/ RemoveKeyframe
  \/ GetValue

SpecKeyframes == Init /\ [][NextKeyframes]_vars

\* ------------------------------------------- the server, directive requests
RequestIds == {"req-1", "req-2"}

UnknownMethods == {"edit.undo"}

\* the session a request names: any identifier createSession has returned, the
\* session deleted since or not, and one identifier naming nothing
SessionArgs == 1..(server.nextSessionId - 1) \cup {NoId}

AgentTypes == {"director", "editor"}

AgentIds == {"agent-1"}

Assets == {[id |-> "asset-1", type |-> "bgm"]}

DirectiveShapes ==
  {[type |-> "add_text", parameters |-> "empty"],
   [type |-> "add_bgm", parameters |-> "asset"],
   [type |-> "add_bgm", parameters |-> "empty"],
   [type |-> "add_bgm", parameters |-> "none"]}

Priorities == 1..MaxPriority

\* the lists a caller submits: up to MaxBatch directives of any shape and
\* priority; their ids are unique and number the submissions to the session
RECURSIVE Batches(_, _)
Batches(firstId, n) ==
  IF n = 0 THEN {<<>>}
  ELSE {<<[id |-> firstId, type |-> sh.type, priority |-> p,
           parameters |-> sh.parameters]>> \o rest :
          sh \in DirectiveShapes, p \in Priorities,
          rest \in Batches(firstId + 1, n - 1)}

\* handleRequest: the response carries the request's id and the result or error
Handled(method, sessionId, r) ==
  /\ server' = r.server
  /\ \E id \in RequestIds :
       /\ resp' = handleRequest(id, r.out)
       /\ last' = [NoCall EXCEPT !.op = method, !.requestId = id,
                                 !.sessionId = sessionId]
  /\ UNCHANGED <<timelineVars, otherVars>>

SessionCreate ==
  /\ server.nextSessionId <= MaxSessions
  /\ Handled("session.create", NoId, createSession(server))
  /\ submitted' = (server.nextSessionId :> 0) @@ submitted

SessionDelete ==
  /\ \E s \in SessionArgs : Handled("session.delete", s, deleteSession(server, s))
  /\ UNCHANGED submitted

SessionList ==
  /\ Handled("session.list", NoId, handleSessionList(server))
  /\ UNCHANGED submitted

AgentRegister ==
  /\ \E s \in SessionArgs, a \in AgentIds, t \in AgentTypes :
       Handled("agent.register", s, handleAgentRegister(server, s, a, t))
  /\ UNCHANGED submitted

AgentSubmitAsset ==
  /\ \E s \in SessionArgs, a \in Assets :
       Handled("agent.submit_asset", s, handleSubmitAsset(server, s, a))
  /\ UNCHANGED submitted

AgentSubmitDirectives ==
  \E s \in SessionArgs :
    LET sofar == IF s \notin SessionIds(server) THEN 0 ELSE submitted[s]
    IN \E n \in IF s \notin SessionIds(server) THEN {0} ELSE 0..MaxBatch :
         /\ sofar + n <= MaxDirectives
         /\ \E ds \in Batches(sofar + 1, n) :
              Handled("agent.submit_directives", s, handleSubmitDirectives(server, s, ds))
         /\ submitted' = IF s \notin SessionIds(server) THEN submitted
                         ELSE [submitted EXCEPT ![s] = sofar + n]

AgentGetStatus ==
  /\ \E s \in SessionArgs : Handled("agent.get_status", s, handleGetStatus(server, s))
  /\ UNCHANGED submitted

AgentExecuteNext ==
  /\ \E s \in SessionArgs :
       Handled("agent.execute_next", s, handleExecuteNext(server, s))
  /\ UNCHANGED submitted

\* a request whose method is not a case of processRequest
UnknownMethod ==
  /\ \E s \in SessionArgs, method \in UnknownMethods :
       Handled(method, s, handleUnknownMethod(server, method))
  /\ UNCHANGED submitted

NextDirectives ==
  \/ SessionCreate
  \/ SessionDelete
  \/ AgentRegister
  \/ AgentSubmitAsset
  \/ AgentSubmitDirectives
  \/ AgentGetStatus
  \/ AgentExecuteNext
  \/ UnknownMethod

SpecDirectives == Init /\ [][NextDirectives]_vars

\* ------------------------------------------------ the server, edit requests
RequestTrackKinds ==
  {[name |-> "Video Track", type |-> "video"], [name |-> "Overlay", type |-> "overlay"]}

XArgs == {Undefined, 0, 10}

NewXArgs == {Undefined, 20}

SessionTrackArgs(s) == IF s \notin SessionIds(server) THEN {NoId} ELSE TrackArgs(server.sessions[s].tm)

SessionItemArgs(s) == IF s \notin SessionIds(server) THEN {NoId} ELSE ItemArgs(server.sessions[s].tm)

HandledEdit(method, sessionId, trackId, itemId, r) ==
  /\ server' = r.server
  /\ \E id \in RequestIds :
       /\ resp' = handleRequest(id, r.out)
       /\ last' = [NoCall EXCEPT !.op = method, !.requestId = id,
                                 !.sessionId = sessionId, !.trackId = trackId,
                                 !.itemId = itemId]
  /\ UNCHANGED <<timelineVars, otherVars, submitted>>

EditCreateTrack ==
  \E s \in SessionArgs, k \in RequestTrackKinds :
    /\ s \in SessionIds(server) => server.sessions[s].tm.nextId <= MaxIds
    /\ HandledEdit("edit.create_track", s, NoId, NoId,
                   handleCreateTrack(server, s, k.name, k.type))

EditAddText ==
  \E s \in SessionArgs :
    /\ s \in SessionIds(server) =>
         server.sessions[s].tm.nextId
           + (IF FindTrackByName(server.sessions[s].tm, "Text") = 0 THEN 1 ELSE 0)
           <= MaxIds
    /\ \E f \in IF s \notin SessionIds(server) THEN {Undefined} ELSE {Undefined} \cup Frames,
          x \in IF s \notin SessionIds(server) THEN {Undefined} ELSE XArgs :
         HandledEdit("edit.add_text", s, NoId, NoId, handleAddText(server, s, f, x))

EditSetProperties ==
  \E s \in SessionArgs :
    \E t \in SessionTrackArgs(s), i \in SessionItemArgs(s), x \in NewXArgs :
      HandledEdit("edit.set_properties", s, t, i, handleSetProperties(server, s, t, i, x))

\* the clip requests are made while the session's log holds fewer than MaxOps
\* entries
LogOpen(s) == s \in SessionIds(server) => Len(server.sessions[s].tm.undoStack) < MaxOps

EditMoveClip ==
  \E s \in SessionArgs :
    /\ LogOpen(s)
    /\ \E t \in SessionTrackArgs(s), i \in SessionItemArgs(s),
          n \in SessionTrackArgs(s) \cup {Undefined} :
       \E f \in FrameArgs(t, i) :
         HandledEdit("edit.move_clip", s, t, i, handleMoveClip(server, s, t, i, f, n))

EditTrimClip ==
  \E s \in SessionArgs :
    /\ LogOpen(s)
    /\ \E t \in SessionTrackArgs(s), i \in SessionItemArgs(s) :
       \E startFrame \in OptFrameArgs(t, i), endFrame \in OptFrameArgs(t, i) :
         HandledEdit("edit.trim_clip", s, t, i,
                     handleTrimClip(server, s, t, i, startFrame, endFrame))

EditSplitClip ==
  \E s \in SessionArgs :
    /\ LogOpen(s)
    /\ s \in SessionIds(server) => server.sessions[s].tm.nextId <= MaxIds
    /\ \E t \in SessionTrackArgs(s), i \in SessionItemArgs(s) :
       \E f \in FrameArgs(t, i) :
         HandledEdit("edit.split_clip", s, t, i, handleSplitClip(server, s, t, i, f))

EditDeleteClip ==
  \E s \in SessionArgs :
    /\ LogOpen(s)
    /\ \E t \in SessionTrackArgs(s), i \in SessionItemArgs(s) :
         HandledEdit("edit.delete_clip", s, t, i, handleDeleteClip(server, s, t, i))

EditGetTimeline ==
  \E s \in SessionArgs :
    HandledEdit("edit.get_timeline", s, NoId, NoId, handleGetTimeline(server, s))

\* a caller in the same process reaches the manager through getSession()
SessionLockTrack ==
  \E s \in SessionIds(server) :
    \E t \in TrackIds(server.sessions[s].tm), flag \in BOOLEAN :
      /\ server' = WithSession(server, s,
                      [server.sessions[s] EXCEPT !.tm = setLocked(@, t, flag)])
      /\ last' = [NoCall EXCEPT !.op = "setLocked", !.sessionId = s, !.trackId = t,
                                !.ret = flag]
      /\ UNCHANGED <<timelineVars, otherVars, resp, submitted>>

SessionDeleteTrack ==
  \E s \in SessionIds(server) :
    \E t \in TrackArgs(server.sessions[s].tm) :
      LET r == deleteTrack(server.sessions[s].tm, t)
      IN /\ server' = WithSession(server, s, [server.sessions[s] EXCEPT !.tm = r.tm])
         /\ last' = [NoCall EXCEPT !.op = "deleteTrack", !.sessionId = s,
                                   !.trackId = t, !.ret = r.ret]
         /\ UNCHANGED <<timelineVars, otherVars, resp, submitted>>

NextEdit ==
  \/ SessionCreate
  \/ EditCreateTrack
  \/ EditAddText
  \/ EditSetProperties
  \/ SessionLockTrack
  \/ SessionDeleteTrack

SpecEdit == Init /\ [][NextEdit]_vars

\* --------------------------------------------- the server, every request
\* Every method in one specification, on small sessions: at most MaxQueued
\* directives are submitted to a session; tracks and text items are created on
\* fresh timelines of sessions without agents and assets; agents and assets
\* arrive while the timeline is fresh; the clip requests stop when the log
\* holds MaxOps entries.
FreshTimelines == \A s \in SessionIds(server) : server.sessions[s].tm.nextId = 1

NoAgents ==
  \A s \in SessionIds(server) :
    /\ server.sessions[s].connectedAgents = <<>>
    /\ server.sessions[s].generatedAssets = <<>>

AgentSubmitFew ==
  \E s \in SessionArgs :
    LET sofar == IF s \notin SessionIds(server) THEN 0 ELSE submitted[s]
    IN \E n \in IF s \notin SessionIds(server) THEN {0} ELSE 0..MaxQueued :
         /\ sofar + n <= MaxQueued
         /\ \E ds \in Batches(sofar + 1, n) :
              Handled("agent.submit_directives", s, handleSubmitDirectives(server, s, ds))
         /\ submitted' = IF s \notin SessionIds(server) THEN submitted
                         ELSE [submitted EXCEPT ![s] = sofar + n]

NextRequests ==
  \/ SessionCreate
  \/ SessionDelete
  \/ SessionList
  \/ UnknownMethod
  \/ FreshTimelines /\ AgentRegister
  \/ FreshTimelines /\ AgentSubmitAsset
  \/ AgentSubmitFew
  \/ AgentGetStatus
  \/ AgentExecuteNext
  \/ FreshTimelines /\ NoAgents /\ EditCreateTrack
  \/ FreshTimelines /\ NoAgents /\ EditAddText
  \/ EditSetProperties
  \/ EditMoveClip
  \/ EditTrimClip
  \/ EditSplitClip
  \/ EditDeleteClip
  \/ EditGetTimeline

SpecRequests == Init /\ [][NextRequests]_vars

\* --------------------------------------- the server, every directive kind
\* One directive of any kind is submitted to a session and executed.
DirectiveKinds ==
  {"cut_sequence", "add_bgm", "add_sfx", "add_text", "add_transition", "apply_effect"}

KindShapes == DirectiveShapes \cup {[type |-> k, parameters |-> "empty"] : k \in DirectiveKinds}

AgentSubmitKind ==
  \E s \in SessionArgs :
    IF s \notin SessionIds(server)
    THEN /\ Handled("agent.submit_directives", s, handleSubmitDirectives(server, s, <<>>))
         /\ UNCHANGED submitted
    ELSE /\ submitted[s] < MaxQueued
         /\ \E sh \in KindShapes, p \in Priorities :
              Handled("agent.submit_directives", s,
                      handleSubmitDirectives(server, s,
                        <<[id |-> submitted[s] + 1, type |-> sh.type, priority |-> p,
                           parameters |-> sh.parameters]>>))
         /\ submitted' = [submitted EXCEPT ![s] = @ + 1]

NextKinds ==
  \/ SessionCreate
  \/ AgentSubmitKind
  \/ AgentGetStatus
  \/ AgentExecuteNext

SpecKinds == Init /\ [][NextKinds]_vars

\* ------------------------------------------------ the server, two sessions
\* Up to MaxIsolated sessions that receive the requests changing a session:
\* agent.register, agent.submit_asset, agent.submit_directives,
\* agent.execute_next, edit.create_track, edit.add_text and edit.move_clip.  The
\* sessions are kept small together: a request that adds a track, an item, a
\* directive, an agent or an asset is made while the live sessions hold fewer
\* than MaxLoad of them.
SessionLoad(s) ==
  LET sess == server.sessions[s]
  IN (sess.tm.nextId - 1) + submitted[s] + Cardinality(DOMAIN sess.connectedAgents)
       + Len(sess.generatedAssets)

RECURSIVE LoadOf(_)
LoadOf(ids) ==
  IF ids = {} THEN 0
  ELSE LET s == CHOOSE x \in ids : TRUE
       IN SessionLoad(s) + LoadOf(ids \ {s})

Room(n) == LoadOf(SessionIds(server)) + n <= MaxLoad

SessionCreateMore ==
  /\ server.nextSessionId <= MaxIsolated
  /\ Handled("session.create", NoId, createSession(server))
  /\ submitted' = (server.nextSessionId :> 0) @@ submitted

NextSessions ==
  \/ SessionCreateMore
  \/ SessionDelete
  \/ Room(1) /\ AgentRegister
  \/ Room(1) /\ AgentSubmitAsset
  \/ Room(1) /\ AgentSubmitFew
  \/ AgentExecuteNext
  \/ Room(1) /\ EditCreateTrack
  \/ Room(2) /\ EditAddText
  \/ EditMoveClip

SpecSessions == Init /\ [][NextSessions]_vars

\* -------------------------------------- the server, calls in flight
\* agent.execute_next as the two steps of its async handler, with up to
\* MaxInFlight calls suspended at the await.  inflight holds the suspended
\* calls in the order in which they were suspended; they have the same chain
\* of awaits, so the event loop resumes them in that order.  The step that
\* suspends a call leaves the last response as it is.
ExecuteNextBegin ==
  /\ Len(inflight) < MaxInFlight
  /\ \E s \in SessionArgs, id \in RequestIds :
       LET begun == executeNextBegin(server, s)
       IN /\ server' = begun.server
          /\ IF begun.suspended
             THEN /\ inflight' = Append(inflight, [requestId |-> id] @@ begun.flight)
                  /\ resp' = resp
                  /\ last' = [NoCall EXCEPT !.op = "agent.execute_next:await",
                                            !.requestId = id, !.sessionId = s]
             ELSE /\ inflight' = inflight
                  /\ resp' = handleRequest(id, begun.out)
                  /\ last' = [NoCall EXCEPT !.op = "agent.execute_next",
                                            !.requestId = id, !.sessionId = s]
  /\ UNCHANGED <<timelineVars, submitted, keyframes, simple, simpleResp>>

ExecuteNextFinish ==
  /\ inflight # <<>>
  /\ LET flight == Head(inflight)
         finished == executeNextFinish(server, flight)
     IN /\ server' = finished.server
        /\ resp' = handleRequest(flight.requestId, finished.out)
        /\ last' = [NoCall EXCEPT !.op = "agent.execute_next",
                                  !.requestId = flight.requestId,
                                  !.sessionId = flight.sessionId]
  /\ inflight' = Tail(inflight)
  /\ UNCHANGED <<timelineVars, submitted, keyframes, simple, simpleResp>>

NextFlight ==
  \/ SessionCreate
  \/ AgentSubmitDirectives
  \/ ExecuteNextBegin
  \/ ExecuteNextFinish

SpecFlight == Init /\ [][NextFlight]_vars

\* ------------------------------------------ the two servers side by side
\* Every request goes to MCPVideoEditingServer and to the simple server: create
\* a session, submit directives, get the status, execute the next directive.
\* The sessions of the two are created together and named by the same number.
Both(method, sessionId, r, q) ==
  /\ server' = r.server
  /\ \E id \in RequestIds :
       /\ resp' = handleRequest(id, r.out)
       /\ last' = [NoCall EXCEPT !.op = method, !.requestId = id,
                                 !.sessionId = sessionId]
  /\ simple' = q.server
  /\ simpleResp' = q.out
  /\ UNCHANGED <<timelineVars, keyframes, inflight>>

BothCreate ==
  /\ server.nextSessionId <= MaxSessions
  /\ Both("session.create", NoId, createSession(server), simpleCreateSession(simple))
  /\ submitted' = (server.nextSessionId :> 0) @@ submitted

BothSubmitDirectives ==
  \E s \in SessionArgs :
    LET sofar == IF s \notin SessionIds(server) THEN 0 ELSE submitted[s]
    IN \E n \in IF s \notin SessionIds(server) THEN {0} ELSE 0..MaxBatch :
         /\ sofar + n <= MaxDirectives
         /\ \E ds \in Batches(sofar + 1, n) :
              Both("agent.submit_directives", s,
                   handleSubmitDirectives(server, s, ds),
                   simpleSubmitDirectives(simple, s, ds))
         /\ submitted' = IF s \notin SessionIds(server) THEN submitted
                         ELSE [submitted EXCEPT ![s] = sofar + n]

BothGetStatus ==
  /\ \E s \in SessionArgs :
       Both("agent.get_status", s, handleGetStatus(server, s), simpleGetStatus(simple, s))
  /\ UNCHANGED submitted

BothExecuteNext ==
  /\ \E s \in SessionArgs :
       Both("agent.execute_next", s, handleExecuteNext(server, s),
            simpleExecute(simple, s))
  /\ UNCHANGED submitted

NextBoth ==
  \/ BothCreate
  \/ BothSubmitDirectives
  \/ BothGetStatus
  \/ BothExecuteNext

SpecBoth == Init /\ [][NextBoth]_vars

\* ------------------------------------------------- claims, timeline engine
ItemMutations == {"addItem", "removeItem", "moveItem", "trimItem", "splitItem"}

NoOverlap(m) ==
  \A t \in 1..Len(m.tracks) :
    \A i, j \in 1..Len(m.tracks[t].items) :
      i # j => ~Intersects(m.tracks[t].items[i], m.tracks[t].items[j])

\* every mutation recorded so far is still on a stack, and all of them are
\* addItem or moveItem calls (both are logged with type "move")
OnlyAddAndMove(m) ==
  /\ ops = Len(m.undoStack) + Len(m.redoStack)
  /\ \A i \in 1..Len(m.undoStack) : m.undoStack[i].type = "move"
  /\ \A i \in 1..Len(m.redoStack) : m.redoStack[i].type = "move"

\* C1: after any sequence of successful addItem and moveItem calls from the empty
\* timeline, no two distinct items of a track have intersecting intervals
C1_NonOverlap == OnlyAddAndMove(tm) => NoOverlap(tm)

\* C2: in every reachable state getTotalDuration() is the maximum of
\* start + duration over all items of all tracks, and 0 when there is none
C2_TotalDurationIsMax == tm.totalDuration = ComputeTotalDuration(tm.tracks)

\* C3: undo() right after a successful mutating call restores the timeline of
\* before the call: the same tracks and items, the same total duration
C3_UndoRestoresPreCall ==
  hist.phase = 2 =>
    /\ tm.tracks = hist.pre.tracks
    /\ tm.totalDuration = hist.pre.totalDuration

\* C4: undo(); redo() right after a successful mutating call restores the state
\* of right after the call: the timeline and both stacks
C4_UndoRedoRestoresPostCall ==
  hist.phase = 3 =>
    /\ tm.tracks = hist.post.tracks
    /\ tm.totalDuration = hist.post.totalDuration
    /\ tm.undoStack = hist.post.undoStack
    /\ tm.redoStack = hist.post.redoStack

C4_Witness ==
  /\ hist.phase = 3
  /\ last.op = "redo"
  /\ last.ret
  /\ Len(tm.undoStack) = 2
  /\ hist.pre.tracks # hist.post.tracks

\* C7: an item mutation aimed at a locked track (as the track of the call, or
\* as the destination of a cross-track move) returns false and leaves the
\* track and its items unchanged
C7_LockEnforced ==
  [][\A k \in 1..Len(tm.tracks) :
       (/\ tm.tracks[k].isLocked
        /\ last'.op \in ItemMutations
        /\ \/ last'.trackId = tm.tracks[k].id
           \/ last'.op = "moveItem" /\ last'.newTrackId = tm.tracks[k].id)
       => /\ last'.ret = FALSE
          /\ Len(tm'.tracks) = Len(tm.tracks)
          /\ tm'.tracks[k] = tm.tracks[k]]_vars

\* a cross-track move of an existing item from an unlocked track into a locked
\* track that holds an item has just been refused
C7_Witness ==
  /\ last.op = "moveItem"
  /\ last.ret = FALSE
  /\ \E k, d \in 1..Len(tm.tracks) :
       /\ k # d
       /\ tm.tracks[k].id = last.trackId
       /\ ~tm.tracks[k].isLocked
       /\ FindItemIndex(tm.tracks[k].items, last.itemId) # 0
       /\ tm.tracks[d].id = last.newTrackId
       /\ tm.tracks[d].isLocked

\* C10: splitting an item [s, s+d) of an unlocked track at f, s < f < s+d,
\* returns true, leaves the item at [s, f) and appends exactly one new item with
\* a fresh identifier and the same other attributes at [f, s+d)
C10_SplitCorrect ==
  [][\A k \in 1..Len(tm.tracks) :
       LET j == FindItemIndex(tm.tracks[k].items, last'.itemId)
           f == last'.frames[1]
       IN (/\ last'.op = "splitItem"
           /\ last'.trackId = tm.tracks[k].id
           /\ ~tm.tracks[k].isLocked
           /\ j # 0
           /\ tm.tracks[k].items[j].startFrame < f
           /\ f < ItemEnd(tm.tracks[k].items[j]))
          => LET item == tm.tracks[k].items[j]
                 after == tm'.tracks[k].items
             IN /\ last'.ret = TRUE
                /\ Len(tm'.tracks) = Len(tm.tracks)
                /\ \A o \in 1..Len(tm.tracks) : o # k => tm'.tracks[o] = tm.tracks[o]
                /\ Len(after) = Len(tm.tracks[k].items) + 1
                /\ \A i \in 1..Len(tm.tracks[k].items) :
                     i # j => after[i] = tm.tracks[k].items[i]
                /\ after[j] = [item EXCEPT !.durationInFrames = f - item.startFrame]
                /\ after[Len(after)].id \notin ItemIds(tm)
                /\ after[Len(after)] =
                     [item EXCEPT !.id = after[Len(after)].id,
                                  !.startFrame = f,
                                  !.durationInFrames = ItemEnd(item) - f]
                /\ after[j].durationInFrames + after[Len(after)].durationInFrames
                     = item.durationInFrames]_vars

C10_Witness ==
  /\ last.op = "splitItem"
  /\ last.ret = TRUE
  /\ \E k \in 1..Len(tm.tracks) :
       /\ tm.tracks[k].id = last.trackId
       /\ Len(tm.tracks[k].items) = 2
       /\ tm.tracks[k].items[1].id = last.itemId
       /\ ItemEnd(tm.tracks[k].items[1]) = tm.tracks[k].items[2].startFrame

\* C11: splitItem on an existing item with a split frame that is not strictly
\* inside the item's interval (f <= start or f >= start + duration) returns
\* false and changes nothing: the tracks and their items, the total duration
\* and both stacks stay as they were
C11_SplitOutsideRejected ==
  [][\A k \in 1..Len(tm.tracks) :
       LET j == FindItemIndex(tm.tracks[k].items, last'.itemId)
           f == last'.frames[1]
       IN (/\ last'.op = "splitItem"
           /\ last'.trackId = tm.tracks[k].id
           /\ j # 0
           /\ \/ f <= tm.tracks[k].items[j].startFrame
              \/ f >= ItemEnd(tm.tracks[k].items[j]))
          => /\ last'.ret = FALSE
             /\ tm'.tracks = tm.tracks
             /\ tm'.totalDuration = tm.totalDuration
             /\ tm'.undoStack = tm.undoStack
             /\ tm'.redoStack = tm.redoStack
             /\ tm'.nextId = tm.nextId]_vars

\* a split at the end frame of an item of an unlocked track has been refused
C11_Witness ==
  /\ last.op = "splitItem"
  /\ last.ret = FALSE
  /\ \E k \in 1..Len(tm.tracks) :
       LET j == FindItemIndex(tm.tracks[k].items, last.itemId)
       IN /\ tm.tracks[k].id = last.trackId
          /\ ~tm.tracks[k].isLocked
          /\ j # 0
          /\ last.frames[1] = ItemEnd(tm.tracks[k].items[j])
          /\ tm.tracks[k].items[j].durationInFrames >= 2

\* C12: undo() returns false exactly when the undo stack is empty, redo() exactly
\* when the redo stack is empty, and then nothing changes; otherwise they return
\* true and move the newest entry of their stack onto the other stack, leaving
\* the timeline alone
C12_UndoRedoContract ==
  [][/\ last'.op = "undo" =>
          /\ last'.ret = (tm.undoStack # <<>>)
          /\ ~last'.ret => tm' = tm
          /\ last'.ret =>
               /\ tm.undoStack = Append(tm'.undoStack, tm.undoStack[Len(tm.undoStack)])
               /\ tm'.redoStack = Append(tm.redoStack, tm.undoStack[Len(tm.undoStack)])
               /\ tm'.tracks = tm.tracks
               /\ tm'.totalDuration = tm.totalDuration
     /\ last'.op = "redo" =>
          /\ last'.ret = (tm.redoStack # <<>>)
          /\ ~last'.ret => tm' = tm
          /\ last'.ret =>
               /\ tm.redoStack = Append(tm'.redoStack, tm.redoStack[Len(tm.redoStack)])
               /\ tm'.undoStack = Append(tm.undoStack, tm.redoStack[Len(tm.redoStack)])
               /\ tm'.tracks = tm.tracks
               /\ tm'.totalDuration = tm.totalDuration]_vars

\* two mutations, both undone, and the older one redone: redo() returned true
\* with one entry on each stack
C12_Witness ==
  /\ last.op = "redo"
  /\ last.ret = TRUE
  /\ ops = 2
  /\ Len(tm.undoStack) = 1
  /\ Len(tm.redoStack) = 1
  /\ tm.undoStack[1] # tm.redoStack[1]

\* C13: a successful item mutation leaves the redo stack empty, so that redo()
\* returns false; a failed one leaves the redo stack as it was
C13_MutationClearsRedo ==
  [][last'.op \in ItemMutations =>
       /\ last'.ret => (tm'.redoStack = <<>> /\ redo(tm').ret = FALSE)
       /\ ~last'.ret => tm'.redoStack = tm.redoStack]_vars

\* a mutation made after an undo() has succeeded: of the two mutations recorded
\* only the new one is on a stack
C13_Witness ==
  /\ last.op \in ItemMutations
  /\ last.ret = TRUE
  /\ ops = 2
  /\ Len(tm.undoStack) = 1
  /\ tm.redoStack = <<>>
  /\ Len(hist.pre.redoStack) = 1

\* C14: the undo stack never holds more than 100 entries, whatever mutations,
\* undo() and redo() calls are interleaved; a mutation recorded on a full stack
\* evicts the oldest entry and keeps the others in their order, the new entry
\* last
C14_UndoStackCapped ==
  /\ Len(tm.undoStack) <= UndoLimit
  /\ [][/\ Len(tm'.undoStack) <= UndoLimit
        /\ (/\ last'.op \in ItemMutations
            /\ last'.ret
            /\ Len(tm.undoStack) = UndoLimit)
           => /\ Len(tm'.undoStack) = UndoLimit
              /\ SubSeq(tm'.undoStack, 1, UndoLimit - 1) = Tail(tm.undoStack)
              /\ tm'.undoStack[UndoLimit].itemId = last'.itemId]_vars

\* a mutation has been recorded on a full stack: the entry that was second is
\* now the oldest, and it differs from the evicted one
C14_Witness ==
  /\ last.op \in ItemMutations
  /\ last.ret = TRUE
  /\ hist.phase = 1
  /\ Len(hist.pre.undoStack) = UndoLimit
  /\ Len(tm.undoStack) = UndoLimit
  /\ tm.undoStack[1] = hist.pre.undoStack[2]
  /\ tm.undoStack[1] # hist.pre.undoStack[1]

\* the item of a track's items that has this identifier
ItemById(items, id) == items[FindItemIndex(items, id)]

\* the track on which an addItem or moveItem call resolves overlaps
ResolvedTrackId(call) ==
  IF call.op = "moveItem" /\ call.newTrackId # Undefined THEN call.newTrackId
  ELSE call.trackId

\* the new or moved item as the call asks for it, from the state before the call
RequestedItem(m, call) ==
  IF call.op = "addItem"
  THEN [id |-> call.itemId,
        startFrame |-> IF call.frames[3] # Undefined THEN call.frames[3]
                       ELSE call.frames[1],
        durationInFrames |-> call.frames[2], x |-> 0]
  ELSE [ItemById(m.tracks[FindTrackIndex(m.tracks, call.trackId)].items, call.itemId)
          EXCEPT !.startFrame = call.frames[1]]

\* C26: in a successful addItem or moveItem of an item N at [ns, ne), every
\* other item C of the track that intersects N (NOT (ne <= C.start OR
\* ns >= C.end)) gets exactly one resolution: C.start becomes ne with the same
\* duration when ns < C.start, and C.duration becomes max(1, ns - C.start) with
\* the same start otherwise; the items that do not intersect N are as they were
\* and N is as the call asked for it
C26_OneResolutionEach ==
  [][\A k \in 1..Len(tm.tracks) :
       (/\ last'.op \in {"addItem", "moveItem"}
        /\ last'.ret = TRUE
        /\ tm.tracks[k].id = ResolvedTrackId(last'))
       => LET before == tm.tracks[k].items
              after == tm'.tracks[k].items
              N == RequestedItem(tm, last')
              ns == N.startFrame
              ne == N.startFrame + N.durationInFrames
          IN /\ FindItemIndex(after, N.id) # 0
             /\ ItemById(after, N.id) = N
             /\ \A i \in 1..Len(after) :
                  after[i].id = N.id \/ FindItemIndex(before, after[i].id) # 0
             /\ \A i \in 1..Len(before) :
                  LET C == before[i]
                  IN C.id # N.id =>
                       /\ FindItemIndex(after, C.id) # 0
                       /\ ItemById(after, C.id) =
                            IF ~(ne <= C.startFrame
                                   \/ ns >= C.startFrame + C.durationInFrames)
                            THEN IF ns < C.startFrame
                                 THEN [C EXCEPT !.startFrame = ne]
                                 ELSE [C EXCEPT !.durationInFrames =
                                                   Max2(1, ns - C.startFrame)]
                            ELSE C]_vars

\* an added item has just started strictly inside an existing item, which was
\* cut to end where the added item starts
C26_Witness ==
  /\ last.op = "addItem"
  /\ last.ret = TRUE
  /\ hist.phase = 1
  /\ \E k \in 1..Len(tm.tracks) :
       /\ tm.tracks[k].id = last.trackId
       /\ Len(tm.tracks[k].items) = 2
       /\ hist.pre.tracks[k].items[1].durationInFrames = 2
       /\ tm.tracks[k].items[1].durationInFrames = 1
       /\ tm.tracks[k].items[1].startFrame = hist.pre.tracks[k].items[1].startFrame
       /\ tm.tracks[k].items[2].startFrame = ItemEnd(tm.tracks[k].items[1])

\* C27: overlap resolution is a single pass: in a successful addItem of N, an
\* item B that N pushes lands at N's end and an item C that does not intersect
\* N stays as it was, whether or not B now intersects C
C27_SinglePass ==
  [][\A k \in 1..Len(tm.tracks) :
       (/\ last'.op = "addItem"
        /\ last'.ret = TRUE
        /\ tm.tracks[k].id = last'.trackId)
       => LET before == tm.tracks[k].items
              after == tm'.tracks[k].items
              N == RequestedItem(tm, last')
          IN \A b, c \in 1..Len(before) :
               (/\ b # c
                /\ Intersects(N, before[b])
                /\ N.startFrame < before[b].startFrame
                /\ ~Intersects(N, before[c]))
               => /\ after[b] = [before[b] EXCEPT !.startFrame = ItemEnd(N)]
                  /\ after[c] = before[c]]_vars

\* an added item has just pushed an item B, which did not overlap the item C
\* before the call, onto C: the call has returned with B and C overlapping
C27_Witness ==
  /\ last.op = "addItem"
  /\ last.ret = TRUE
  /\ hist.phase = 1
  /\ \E k \in 1..Len(tm.tracks) :
     \E b, c \in 1..Len(hist.pre.tracks[k].items) :
       /\ tm.tracks[k].id = last.trackId
       /\ b # c
       /\ ~Intersects(hist.pre.tracks[k].items[b], hist.pre.tracks[k].items[c])
       /\ tm.tracks[k].items[b].startFrame > hist.pre.tracks[k].items[b].startFrame
       /\ tm.tracks[k].items[c] = hist.pre.tracks[k].items[c]
       /\ Intersects(tm.tracks[k].items[b], tm.tracks[k].items[c])
       /\ tm.tracks[k].items[b].startFrame < tm.tracks[k].items[c].startFrame

\* C28: trimItem on an existing item of an unlocked track returns true whatever
\* the range: with newStart, start becomes newStart and duration
\* max(1, oldDuration - (newStart - oldStart)); with newEnd, duration becomes
\* max(1, newEnd - start) against the start just set; the duration is never
\* below 1
C28_TrimClamps ==
  [][\A k \in 1..Len(tm.tracks) :
       LET j == FindItemIndex(tm.tracks[k].items, last'.itemId)
           newStart == last'.frames[1]
           newEnd == last'.frames[2]
       IN (/\ last'.op = "trimItem"
           /\ last'.trackId = tm.tracks[k].id
           /\ ~tm.tracks[k].isLocked
           /\ j # 0)
          => LET old == tm.tracks[k].items[j]
                 start1 == IF newStart # Undefined THEN newStart ELSE old.startFrame
                 duration1 == IF newStart # Undefined
                              THEN Max2(1, old.durationInFrames
                                             - (newStart - old.startFrame))
                              ELSE old.durationInFrames
                 duration2 == IF newEnd # Undefined THEN Max2(1, newEnd - start1)
                              ELSE duration1
             IN /\ last'.ret = TRUE
                /\ tm'.tracks[k].items[j] =
                     [old EXCEPT !.startFrame = start1, !.durationInFrames = duration2]
                /\ tm'.tracks[k].items[j].durationInFrames >= 1]_vars

\* a trim has just moved the start of an item to or past its end, and the
\* item is one frame long
C28_Witness ==
  /\ last.op = "trimItem"
  /\ last.ret = TRUE
  /\ hist.phase = 1
  /\ last.frames[1] # Undefined
  /\ last.frames[2] = Undefined
  /\ \E k \in 1..Len(tm.tracks) :
       LET j == FindItemIndex(hist.pre.tracks[k].items, last.itemId)
       IN /\ tm.tracks[k].id = last.trackId
          /\ j # 0
          /\ last.frames[1] >= ItemEnd(hist.pre.tracks[k].items[j])
          /\ tm.tracks[k].items[j].startFrame = last.frames[1]
          /\ tm.tracks[k].items[j].durationInFrames = 1

\* C29: a call that returns false (an item mutation, deleteTrack, undo, redo)
\* changes nothing: the tracks and their items, the total duration and both
\* stacks are as before; the item of a failed cross-track move is still in its
\* source track at its old start
C29_FailedCallNoEffect ==
  [][(/\ last'.op \in ItemMutations \cup {"deleteTrack", "undo", "redo"}
      /\ last'.ret = FALSE)
     => /\ tm'.tracks = tm.tracks
        /\ tm'.totalDuration = tm.totalDuration
        /\ tm'.undoStack = tm.undoStack
        /\ tm'.redoStack = tm.redoStack]_vars

\* a move of an existing item of an unlocked track to a track that does not
\* exist has just been refused, after an earlier recorded mutation
C29_Witness ==
  /\ last.op = "moveItem"
  /\ last.ret = FALSE
  /\ last.newTrackId = NoId
  /\ tm.undoStack # <<>>
  /\ \E k \in 1..Len(tm.tracks) :
       /\ tm.tracks[k].id = last.trackId
       /\ ~tm.tracks[k].isLocked
       /\ FindItemIndex(tm.tracks[k].items, last.itemId) # 0

\* C30: a successful item mutation appends exactly one entry to the operation
\* log; the entry names the track and the item of the call and carries, for a
\* move the old and new start and track, for a trim the old and new duration,
\* for a split the split frame and the second part's identifier, for a removal
\* the removed item, for an addition the added item; a failed mutation appends
\* none
C30_OneLogEntryPerMutation ==
  [][last'.op \in ItemMutations =>
       IF last'.ret = TRUE
       THEN
         LET old == tm.undoStack
             new == tm'.undoStack
             e == new[Len(new)]
             k == FindTrackIndex(tm.tracks, last'.trackId)
             j == FindItemIndex(tm.tracks[k].items, last'.itemId)
         IN /\ new # <<>>
            /\ \/ SubSeq(new, 1, Len(new) - 1) = old
               \/ Len(old) = UndoLimit /\ SubSeq(new, 1, Len(new) - 1) = Tail(old)
            /\ e.trackId = last'.trackId
            /\ e.itemId = last'.itemId
            /\ CASE last'.op = "moveItem" ->
                      /\ e.type = "move"
                      /\ e.parameters.oldStartFrame = tm.tracks[k].items[j].startFrame
                      /\ e.parameters.newStartFrame = last'.frames[1]
                      /\ e.parameters.oldTrackId = last'.trackId
                      /\ e.parameters.newTrackId = ResolvedTrackId(last')
                 [] last'.op = "trimItem" ->
                      /\ e.type = "trim"
                      /\ e.parameters.oldDuration =
                           tm.tracks[k].items[j].durationInFrames
                      /\ e.parameters.newDuration =
                           tm'.tracks[k].items[j].durationInFrames
                 [] last'.op = "splitItem" ->
                      /\ e.type = "split"
                      /\ e.parameters.splitFrame = last'.frames[1]
                      /\ e.parameters.secondPartId \notin ItemIds(tm)
                      /\ e.parameters.secondPartId =
                           tm'.tracks[k].items[Len(tm'.tracks[k].items)].id
                 [] last'.op = "removeItem" ->
                      /\ e.type = "delete"
                      /\ e.parameters.item = tm.tracks[k].items[j]
                 [] last'.op = "addItem" ->
                      e.parameters.item = RequestedItem(tm, last')
       ELSE tm'.undoStack = tm.undoStack]_vars

\* the second recorded mutation has just removed an item, and the newest log
\* entry carries the removed item
C30_Witness ==
  /\ last.op = "removeItem"
  /\ last.ret = TRUE
  /\ hist.phase = 1
  /\ Len(tm.undoStack) = 2
  /\ tm.undoStack[2].type = "delete"
  /\ tm.undoStack[2].parameters.item.id = last.itemId
  /\ last.itemId \in ItemIds(hist.pre)
  /\ last.itemId \notin ItemIds(tm)

\* C31: the log entry written by a successful addItem has the kind "add", which
\* no entry written by moveItem has
C31_AddLoggedAsAdd ==
  [][(last'.op = "addItem" /\ last'.ret = TRUE)
     => /\ tm'.undoStack # <<>>
        /\ tm'.undoStack[Len(tm'.undoStack)].type = "add"]_vars

\* C32: with items added at a start of at least 0 with at least one frame, and
\* frame arguments of at least 0, every item of every track starts at a frame
\* of at least 0 and lasts at least one frame
C32_ItemsWellFormed ==
  \A k \in 1..Len(tm.tracks) :
    \A i \in 1..Len(tm.tracks[k].items) :
      /\ tm.tracks[k].items[i].startFrame >= 0
      /\ tm.tracks[k].items[i].durationInFrames >= 1

\* an item has just been added at the start frame of an existing item, which
\* overlap resolution has cut down to its lower limit of one frame
C32_Witness ==
  /\ last.op = "addItem"
  /\ last.ret = TRUE
  /\ \E k \in 1..Len(tm.tracks) :
     \E i, j \in 1..Len(tm.tracks[k].items) :
       /\ tm.tracks[k].items[i].id = last.itemId
       /\ tm.tracks[k].items[j].id # last.itemId
       /\ tm.tracks[k].items[j].startFrame = tm.tracks[k].items[i].startFrame
       /\ tm.tracks[k].items[j].durationInFrames = 1

\* no two items of the track at position k intersect
TrackNoOverlap(m, k) ==
  \A i, j \in 1..Len(m.tracks[k].items) :
    i # j => ~Intersects(m.tracks[k].items[i], m.tracks[k].items[j])

\* C33: a successful trimItem on a track in which no two items intersect leaves
\* no two items of that track intersecting
C33_TrimKeepsNoOverlap ==
  [][\A k \in 1..Len(tm.tracks) :
       (/\ last'.op = "trimItem"
        /\ last'.ret = TRUE
        /\ tm.tracks[k].id = last'.trackId
        /\ TrackNoOverlap(tm, k))
       => TrackNoOverlap(tm', k)]_vars

\* the places of the timeline that hold an item: track position, item position
ItemSlots(m) ==
  UNION {{<<k, i>> : i \in 1..Len(m.tracks[k].items)} : k \in 1..Len(m.tracks)}

\* C38: after every step each item identifier is in one place of one track; a
\* successful moveItem or trimItem keeps the number of items and their
\* identifiers, a successful addItem or splitItem adds exactly one item to the
\* ones there were, and a successful removeItem takes exactly the named one away
C38_ItemConservation ==
  [][/\ \A id \in ItemIds(tm') :
          Cardinality({p \in ItemSlots(tm') :
                         tm'.tracks[p[1]].items[p[2]].id = id}) = 1
     /\ (last'.op \in ItemMutations /\ last'.ret = TRUE)
        => LET before == Cardinality(ItemSlots(tm))
               after == Cardinality(ItemSlots(tm'))
           IN CASE last'.op \in {"moveItem", "trimItem"} ->
                     after = before /\ ItemIds(tm') = ItemIds(tm)
                [] last'.op = "addItem" ->
                     /\ after = before + 1
                     /\ ItemIds(tm') = ItemIds(tm) \cup {last'.itemId}
                [] last'.op = "splitItem" ->
                     after = before + 1 /\ ItemIds(tm) \subseteq ItemIds(tm')
                [] last'.op = "removeItem" ->
                     /\ after = before - 1
                     /\ ItemIds(tm') = ItemIds(tm) \ {last'.itemId}]_vars

\* an item has just been moved from its track to another track, where it is
\* the only place that holds it
C38_Witness ==
  /\ last.op = "moveItem"
  /\ last.ret = TRUE
  /\ last.newTrackId \in TrackIds(tm) \ {last.trackId}
  /\ \E k \in 1..Len(tm.tracks) :
       /\ tm.tracks[k].id = last.newTrackId
       /\ FindItemIndex(tm.tracks[k].items, last.itemId) # 0
  /\ \E k \in 1..Len(tm.tracks) :
       /\ tm.tracks[k].id = last.trackId
       /\ FindItemIndex(tm.tracks[k].items, last.itemId) = 0

\* ------------------------------------------------ claims, keyframe animation
\* the two keyframes of the example: the value 0 at frame 0 and the value 1 at
\* frame 30 of one property, both with the easing 'ease-in'
EaseInPair(property) ==
  <<[frame |-> 0, property |-> property, value |-> Rat(0, 1), easing |-> "ease-in"],
    [frame |-> 30, property |-> property, value |-> Rat(1, 1), easing |-> "ease-in"]>>

\* C25: with the value 0 at frame 0 and the value 1 at frame 30 of the same
\* item and property, both keyframes with easing 'ease-in', getValue at frame
\* 15 returns 0.5
C25_EaseInMidpoint ==
  (/\ last.op = "getValue"
   /\ last.frames = <<15>>
   /\ last.itemId \in DOMAIN keyframes
   /\ keyframes[last.itemId] = EaseInPair(last.property))
  => last.value = Rat(1, 2)

\* ------------------------------------------------------ claims, the server
\* d goes before e: a smaller priority, or the same priority and submitted
\* earlier (the ids of a session number its submissions)
GoesBefore(d, e) ==
  \/ d.priority < e.priority
  \/ d.priority = e.priority /\ d.id < e.id

IsResult(r) == "result" \in DOMAIN r

\* C5: every executeNext takes the pending directive of least priority, and
\* among those of equal priority the one submitted first, whatever
\* submitDirectives calls came before; a successful execution completes it
C5_DirectiveOrdering ==
  [][\A s \in SessionIds(server) :
       LET sess == server.sessions[s]
       IN (/\ last'.op = "agent.execute_next"
           /\ last'.sessionId = s
           /\ sess.pendingDirectives # <<>>)
          => LET d == Head(sess.pendingDirectives)
                 after == server'.sessions[s]
             IN /\ \A i \in 2..Len(sess.pendingDirectives) :
                     GoesBefore(d, sess.pendingDirectives[i])
                /\ \A i, j \in 1..Len(after.pendingDirectives) :
                     i < j => GoesBefore(after.pendingDirectives[i],
                                         after.pendingDirectives[j])
                /\ after.pendingDirectives = Tail(sess.pendingDirectives)
                /\ IsResult(resp')
                /\ resp'.result.success
                     => after.completedDirectives
                          = Append(sess.completedDirectives, d.id)]_vars

\* three directives submitted in two calls have all completed, the one submitted
\* last first, and two of equal priority in the order of their submission
C5_Witness ==
  /\ last.op = "agent.execute_next"
  /\ \E s \in SessionIds(server) :
       /\ submitted[s] = 3
       /\ server.sessions[s].completedDirectives = <<3, 1, 2>>

\* C6: n >= 1 directives submitted to a fresh session, k of them executed, all
\* with success: the status reports currentStep = k, totalSteps = n, and
\* "processing" while k < n, "completed" when k = n
C6_StatusAccounting ==
  \A s \in SessionIds(server) :
    LET sess == server.sessions[s]
        n == submitted[s]
        k == n - Len(sess.pendingDirectives)
        pendingIds == {sess.pendingDirectives[i].id : i \in 1..Len(sess.pendingDirectives)}
        completedIds ==
          {sess.completedDirectives[i] : i \in 1..Len(sess.completedDirectives)}
    IN (n >= 1 /\ (1..n) \subseteq (pendingIds \cup completedIds))
       => /\ sess.editingStatus.currentStep = k
          /\ sess.editingStatus.totalSteps = n
          /\ sess.editingStatus.status = IF k < n THEN "processing" ELSE "completed"

\* the status request after three directives were submitted and one executed
C6_Witness ==
  /\ last.op = "agent.get_status"
  /\ IsResult(resp)
  /\ \E s \in SessionIds(server) :
       /\ last.sessionId = s
       /\ submitted[s] = 3
       /\ Len(server.sessions[s].completedDirectives) = 1
       /\ Len(server.sessions[s].pendingDirectives) = 2
       /\ resp.result.editingStatus.currentStep = 1
       /\ resp.result.editingStatus.totalSteps = 3
       /\ resp.result.editingStatus.status = "processing"

\* C8: an edit.set_properties request, or a deleteTrack call, aimed at a locked
\* track that holds items leaves the items of that track as they are
C8_LockedTrackKeepsItems ==
  [][\A s \in SessionIds(server) :
       \A k \in 1..Len(server.sessions[s].tm.tracks) :
         LET track == server.sessions[s].tm.tracks[k]
         IN (/\ track.isLocked
             /\ track.items # <<>>
             /\ last'.op \in {"edit.set_properties", "deleteTrack"}
             /\ last'.sessionId = s
             /\ last'.trackId = track.id)
            => /\ s \in SessionIds(server')
               /\ \E o \in 1..Len(server'.sessions[s].tm.tracks) :
                    /\ server'.sessions[s].tm.tracks[o].id = track.id
                    /\ server'.sessions[s].tm.tracks[o].items = track.items]_vars

\* C9: executeNext on an empty queue answers success = false, "No pending
\* directives", and changes nothing of the session: neither its lists, nor its
\* status snapshot, nor its timeline
C9_EmptyQueueExecute ==
  [][\A s \in SessionIds(server) :
       (/\ last'.op = "agent.execute_next"
        /\ last'.sessionId = s
        /\ server.sessions[s].pendingDirectives = <<>>)
       => /\ IsResult(resp')
          /\ resp'.result = [success |-> FALSE, message |-> <<"No pending directives">>]
          /\ server' = server]_vars

\* executeNext was refused on a queue that had been emptied by executions
C9_Witness ==
  /\ last.op = "agent.execute_next"
  /\ IsResult(resp)
  /\ resp.result.success = FALSE
  /\ resp.result.message = <<"No pending directives">>
  /\ \E s \in SessionIds(server) :
       /\ last.sessionId = s
       /\ server.sessions[s].pendingDirectives = <<>>
       /\ Len(server.sessions[s].completedDirectives) >= 1

\* the asset an add_bgm directive refers to is absent: its parameters carry no
\* asset, or the session holds no generated asset
AssetAbsent(sess, d) ==
  d.type = "add_bgm" /\ (d.parameters # "asset" \/ sess.generatedAssets = <<>>)

\* C15: executeNext on a directive whose execution fails internally, such as an
\* add_bgm directive whose asset is absent, answers success = false, removes
\* the directive from the pending queue, does not add it to the completed
\* list and does not queue it again
C15_FailedDirectiveDropped ==
  [][\A s \in SessionIds(server) :
       LET sess == server.sessions[s]
       IN (/\ last'.op = "agent.execute_next"
           /\ last'.sessionId = s
           /\ sess.pendingDirectives # <<>>
           /\ AssetAbsent(sess, Head(sess.pendingDirectives)))
          => LET d == Head(sess.pendingDirectives)
                 after == server'.sessions[s]
             IN /\ IsResult(resp')
                /\ resp'.result.success = FALSE
                /\ after.pendingDirectives = Tail(sess.pendingDirectives)
                /\ after.completedDirectives = sess.completedDirectives]_vars

\* C16: as long as no directive was submitted to a session, its status snapshot
\* says "idle", whatever other requests were handled
C16_IdleUntilFirstDirective ==
  \A s \in SessionIds(server) :
    submitted[s] = 0 => server.sessions[s].editingStatus.status = "idle"

\* C17: the response to a request carries the request's id and exactly one of
\* result and error
C17_ResponseEnvelope ==
  [][/\ resp'.id = last'.requestId
     /\ DOMAIN resp' \subseteq {"id", "result", "error"}
     /\ ("result" \in DOMAIN resp') # ("error" \in DOMAIN resp')]_vars

\* after a session was created, a status request "req-2" naming no existing
\* session has been answered with the error alone, under its own id
C17_Witness ==
  /\ last.requestId = "req-2"
  /\ last.op = "agent.get_status"
  /\ resp.id = "req-2"
  /\ DOMAIN resp = {"id", "error"}
  /\ resp.error.message = "Session not found"
  /\ server.nextSessionId > 1

AgentMethods ==
  {"agent.register", "agent.submit_asset", "agent.submit_directives",
   "agent.get_status", "agent.execute_next"}

EditMutations ==
  {"edit.move_clip", "edit.trim_clip", "edit.split_clip", "edit.delete_clip",
   "edit.set_properties", "edit.add_text"}

EditMethods == EditMutations \cup {"edit.create_track", "edit.get_timeline"}

C19_EditMutationsReturnResults ==
  [][(/\ last'.op \in EditMutations
      /\ last'.sessionId \in SessionIds(server))
     => IsResult(resp')]_vars

\* the requests that are not executeNext and that C20 speaks of
NonExecuteMethods == (AgentMethods \ {"agent.execute_next"}) \cup EditMethods

\* C20: only executeNext moves directives: a submit_directives, submit_asset,
\* register, get_status or edit.* request removes no directive from the pending
\* queue and leaves the completed list as it was, and submit_directives and
\* get_status leave the timeline as it was
C20_OnlyExecuteNextMovesDirectives ==
  [][\A s \in SessionIds(server) :
       (/\ last'.op \in NonExecuteMethods
        /\ last'.sessionId = s)
       => LET sess == server.sessions[s]
              after == server'.sessions[s]
              pending(q) == {q[i] : i \in 1..Len(q)}
          IN /\ s \in SessionIds(server')
             /\ pending(sess.pendingDirectives) \subseteq pending(after.pendingDirectives)
             /\ after.completedDirectives = sess.completedDirectives
             /\ last'.op \in {"agent.submit_directives", "agent.get_status"}
                  => after.tm = sess.tm]_vars

\* a move_clip request has moved an item of a session that holds a pending
\* directive
C20_Witness ==
  /\ last.op = "edit.move_clip"
  /\ IsResult(resp)
  /\ resp.result.success = TRUE
  /\ \E s \in SessionIds(server) :
       /\ last.sessionId = s
       /\ server.sessions[s].pendingDirectives # <<>>
       /\ server.sessions[s].isDirty

\* the kinds of directive that executeDirective maps to no Timeline Engine call
UnmappedKinds == {"cut_sequence", "add_sfx", "add_transition", "apply_effect"}

\* C22: executing a directive of a kind without an implemented mapping
\* (cut_sequence, add_sfx, add_transition, apply_effect) does not report
\* success and does not put the directive's identifier on the completed list
C22_UnmappedKindUnimplemented ==
  [][\A s \in SessionIds(server) :
       (/\ last'.op = "agent.execute_next"
        /\ last'.sessionId = s
        /\ server.sessions[s].pendingDirectives # <<>>
        /\ Head(server.sessions[s].pendingDirectives).type \in UnmappedKinds)
       => /\ ~(IsResult(resp') /\ resp'.result.success = TRUE)
          /\ \A i \in 1..Len(server'.sessions[s].completedDirectives) :
               server'.sessions[s].completedDirectives[i]
                 # Head(server.sessions[s].pendingDirectives).id]_vars

\* C23: after execute_next has reported the success of an add_text directive
\* that gives no times, the session's timeline holds exactly one new item; it is
\* in a track whose name marks it as text, starts at 0 * fps, lasts
\* (3 - 0) * fps frames, and the total duration covers it
C23_AddTextDirectiveAddsItem ==
  [][\A s \in SessionIds(server) :
       (/\ last'.op = "agent.execute_next"
        /\ last'.sessionId = s
        /\ server.sessions[s].pendingDirectives # <<>>
        /\ Head(server.sessions[s].pendingDirectives).type = "add_text"
        /\ IsResult(resp')
        /\ resp'.result.success = TRUE)
       => LET before == server.sessions[s].tm
              after == server'.sessions[s].tm
          IN /\ Cardinality(ItemIds(after)) = Cardinality(ItemIds(before)) + 1
             /\ \E k \in 1..Len(after.tracks) :
                \E i \in 1..Len(after.tracks[k].items) :
                  LET item == after.tracks[k].items[i]
                  IN /\ NameIncludes(after.tracks[k].name, "Text")
                     /\ item.id \notin ItemIds(before)
                     /\ item.startFrame = DefaultStartTime * Fps
                     /\ item.durationInFrames =
                          (DefaultEndTime - DefaultStartTime) * Fps
                     /\ after.totalDuration >= ItemEnd(item)]_vars

\* the identifiers that createSession has returned and deleteSession has removed
DeletedSessions(srv) == (1..(srv.nextSessionId - 1)) \ SessionIds(srv)

QueueIds(queue) == [i \in 1..Len(queue) |-> queue[i].id]

\* C34: the pending identifiers in the status that agent.get_status and
\* agent.submit_directives report are exactly the identifiers of the directives
\* in the session's queue, in queue order, which is the order in which
\* agent.execute_next takes them
C34_ReportedPendingIsQueue ==
  [][\A s \in SessionIds(server') :
       (/\ last'.op \in {"agent.get_status", "agent.submit_directives"}
        /\ last'.sessionId = s
        /\ IsResult(resp'))
       => resp'.result.editingStatus.pendingDirectives
            = QueueIds(server'.sessions[s].pendingDirectives)]_vars

\* C36: after every request the status snapshot of every session agrees with
\* the session's lists: currentStep is the length of the completed list,
\* totalSteps the length of the completed list plus the length of the queue,
\* and the reported completed and pending identifiers are the actual ones
C36_SnapshotNeverStale ==
  \A s \in SessionIds(server) :
    LET sess == server.sessions[s]
        status == sess.editingStatus
    IN /\ status.currentStep = Len(sess.completedDirectives)
       /\ status.totalSteps = Len(sess.completedDirectives) + Len(sess.pendingDirectives)
       /\ status.completedDirectives = sess.completedDirectives
       /\ status.pendingDirectives = QueueIds(sess.pendingDirectives)

\* C37: with unique directive identifiers, after every step no identifier is
\* both in a session's queue and in its completed list and no identifier is
\* twice in the completed list; and a step only appends to the completed list
\* of a session it keeps: the entries so far stay, and the reported currentStep
\* does not decrease
C37_CompletedOnceAppendOnly ==
  [][/\ \A s \in SessionIds(server') :
          LET done == server'.sessions[s].completedDirectives
              queue == QueueIds(server'.sessions[s].pendingDirectives)
          IN /\ \A i \in 1..Len(done), j \in 1..Len(queue) : done[i] # queue[j]
             /\ \A i, j \in 1..Len(done) : i # j => done[i] # done[j]
     /\ \A s \in SessionIds(server) \cap SessionIds(server') :
          LET old == server.sessions[s].completedDirectives
              new == server'.sessions[s].completedDirectives
          IN /\ Len(new) >= Len(old)
             /\ SubSeq(new, 1, Len(old)) = old
             /\ server'.sessions[s].editingStatus.currentStep
                  >= server.sessions[s].editingStatus.currentStep]_vars

\* the second directive of a session has just been completed while a third is
\* still in the queue
C37_Witness ==
  /\ last.op = "agent.execute_next"
  /\ last.sessionId \in SessionIds(server)
  /\ IsResult(resp)
  /\ resp.result.success = TRUE
  /\ Len(server.sessions[last.sessionId].completedDirectives) = 2
  /\ server.sessions[last.sessionId].pendingDirectives # <<>>
  /\ server.sessions[last.sessionId].editingStatus.currentStep = 2

\* C39: each agent.execute_next on a session with a non-empty queue takes
\* exactly the head off the queue, so that n calls empty a queue of n, and the
\* directive taken ends completed or reported as failed; once the call has
\* emptied the queue the session's status is "completed"; and on an empty queue
\* agent.execute_next answers success = false
C39_QueueDrainsToCompleted ==
  [][\A s \in SessionIds(server) :
       (last'.op = "agent.execute_next" /\ last'.sessionId = s)
       => LET queue == server.sessions[s].pendingDirectives
              after == server'.sessions[s]
          IN /\ IsResult(resp')
             /\ IF queue = <<>>
                THEN resp'.result.success = FALSE /\ after.pendingDirectives = <<>>
                ELSE /\ after.pendingDirectives = Tail(queue)
                     /\ \/ resp'.result.success = FALSE
                        \/ \E i \in 1..Len(after.completedDirectives) :
                             after.completedDirectives[i] = Head(queue).id
                     /\ after.pendingDirectives = <<>>
                        => after.editingStatus.status = "completed"]_vars

\* ------------------------------------------------------------ claims, two sessions
\* C21: a request processed for one session, or for none, leaves every other
\* existing session in the table and exactly as it was: its timeline with the
\* undo and redo stacks, its pending queue, its completed list, its agents, its
\* assets and its status snapshot
C21_SessionsIsolated ==
  [][\A b \in SessionIds(server) :
       last'.sessionId # b
       => /\ b \in SessionIds(server')
          /\ server'.sessions[b] = server.sessions[b]]_vars

\* a request for one session has just changed that session while another
\* session, which holds a pending directive, exists beside it
C21_Witness ==
  /\ last.op \in {"edit.move_clip", "edit.add_text", "agent.execute_next"}
  /\ last.sessionId \in SessionIds(server)
  /\ IsResult(resp)
  /\ resp.result.success = TRUE
  /\ server.sessions[last.sessionId].tm.undoStack # <<>>
  /\ \E b \in SessionIds(server) \ {last.sessionId} :
       /\ server.sessions[b].pendingDirectives # <<>>
       /\ server.sessions[b].editingStatus.status = "processing"

\* ---------------------------------------------- claims, calls in flight
\* the suspended calls of a session, in the order in which they took their
\* directives off the queue, and the identifiers of those directives
FlightsOf(flights, s) == SelectSeq(flights, LAMBDA f : f.sessionId = s)

FlightIds(flights, s) ==
  [i \in 1..Len(FlightsOf(flights, s)) |-> FlightsOf(flights, s)[i].directive.id]

SeqRange(seq) == {seq[i] : i \in 1..Len(seq)}

HasStatus(r) == IsResult(r) /\ "editingStatus" \in DOMAIN r.result

\* C40: whenever MCPVideoEditingServer and the simple server both answer a
\* request for the same session with a status, the two statuses agree on
\* currentStep, totalSteps, status, the pending identifiers in order and the
\* completed identifiers in order
C40_ServersAgree ==
  [][(HasStatus(resp') /\ HasStatus(simpleResp'))
     => LET a == resp'.result.editingStatus
            b == simpleResp'.result.editingStatus
        IN /\ a.currentStep = b.currentStep
           /\ a.totalSteps = b.totalSteps
           /\ a.status = b.status
           /\ a.pendingDirectives = b.pendingDirectives
           /\ a.completedDirectives = b.completedDirectives]_vars

====
